---- MODULE Spec2Model ----
(***************************************************************************)
(* Ewald summation solver of lumol (lumol-core/src/energy/global/ewald.rs) *)
(* and the cache protocol (move_molecule_cost / update) that the Monte     *)
(* Carlo propagator drives through the SharedEwald wrapper.                *)
(*                                                                         *)
(* Number representation.  The program computes with f64.  The model uses  *)
(* exact integers on a lattice where every quantity of the k-space part    *)
(* is exactly representable:                                               *)
(*   - positions are integer triples, cell lengths are 2 or 4, so that the *)
(*     phase exp(i k.r) of a unit k-vector is a power of the imaginary     *)
(*     unit and every phase factor is a Gaussian integer <<re, im>>;       *)
(*   - k-vector components are counted in units of pi/2, alpha in units    *)
(*     of pi/8, energies in units of 1/FOUR_PI_EPSILON_0;                  *)
(*   - exp, erf and erfc are replaced by fixed-point rational functions    *)
(*     with the same monotonicity (two decimals, scale 100).               *)
(* Sums and products are computed in the order of the source.              *)
(***************************************************************************)
EXTENDS Integers, Sequences, FiniteSets, TLC

VARIABLES
    ewald,      \* the Ewald solver inside SharedEwald's RwLock
    lock,       \* the RwLock: [writer, readers, poisoned]
    system,     \* the caller's configuration: [cell, pos]
    driver,     \* the caller: pending trial, last operation and its result
    threads,    \* per-thread position in the SharedEwald methods
    ctor,       \* arguments and result of Ewald::new
    pair,       \* arguments and result of a call of a real-space pair kernel
    mc,         \* the MonteCarlo propagator and the counters of its moves
    workers     \* the private buffers of the workers of a forces reduction

vars == <<ewald, lock, system, driver, threads, ctor, pair, mc, workers>>

(***************************************************************************)
(* Bounds of the model                                                     *)
(***************************************************************************)
NParticles == 3     \* particles of the configuration
MaxCoord == 1       \* each particle has the sites 0..MaxCoord of its track
KMax == 2           \* kmax argument of the solver under study
MaxOps == 5         \* calls made by the single caller in one run

\* Option<T>
NoneOpt == [some |-> FALSE]
Some(v) == [some |-> TRUE, val |-> v]

(***************************************************************************)
(* types::Complex on Gaussian integers                                     *)
(***************************************************************************)
CZero == <<0, 0>>
COne == <<1, 0>>
CAdd(a, b) == <<a[1] + b[1], a[2] + b[2]>>
CSub(a, b) == <<a[1] - b[1], a[2] - b[2]>>
CMul(a, b) == <<a[1] * b[1] - a[2] * b[2], a[1] * b[2] + a[2] * b[1]>>
CScale(q, a) == <<q * a[1], q * a[2]>>
CConj(a) == <<a[1], 0 - a[2]>>
CNorm2(a) == a[1] * a[1] + a[2] * a[2]
\* Complex::polar(1.0, theta) for theta = quarter * pi/2
CPolar(quarter) ==
    CASE quarter % 4 = 0 -> <<1, 0>>
      [] quarter % 4 = 1 -> <<0, 1>>
      [] quarter % 4 = 2 -> <<-1, 0>>
      [] OTHER -> <<0, -1>>

Max2(a, b) == IF a >= b THEN a ELSE b
Min2(a, b) == IF a <= b THEN a ELSE b

(***************************************************************************)
(* sys::UnitCell                                                           *)
(***************************************************************************)
Infinite == [shape |-> "Infinite", len |-> <<0, 0, 0>>]
Ortho(a, b, c) == [shape |-> "Orthorhombic", len |-> <<a, b, c>>]
CellA == Ortho(4, 4, 4)
CellB == Ortho(2, 4, 4)
Cells == {CellA, CellB, Infinite}

\* UnitCell::k_vector: 2 pi / L_d * index_d per axis, in units of pi/2; the
\* inverse matrix of an infinite cell is zero
KVector(cell, index) ==
    IF cell.shape = "Infinite" THEN <<0, 0, 0>>
    ELSE [d \in 1..3 |-> (4 \div cell.len[d]) * index[d]]

Norm2(v) == v[1] * v[1] + v[2] * v[2] + v[3] * v[3]
Dot(u, v) == u[1] * v[1] + u[2] * v[2] + u[3] * v[3]
VMax(v) == Max2(v[1], Max2(v[2], v[3]))

\* UnitCell::vector_image on one axis: the periodic image nearest to zero
WrapAxis(delta, length) ==
    LET m == delta % length
    IN IF 2 * m > length THEN m - length ELSE m

\* UnitCell::distance, squared
Distance2(cell, u, v) ==
    IF cell.shape = "Infinite" THEN Norm2([d \in 1..3 |-> v[d] - u[d]])
    ELSE Norm2([d \in 1..3 |-> WrapAxis(v[d] - u[d], cell.len[d])])

(***************************************************************************)
(* sys::Configuration: particles 1..NParticles, two per molecule           *)
(***************************************************************************)
Particles == 1..NParticles
MolOf(i) == (i + 1) \div 2
Molecules == {MolOf(i) : i \in Particles}
\* Molecule::indexes, in increasing order
First(m) == 2 * m - 1
MolSize(m) == IF 2 * m <= NParticles THEN 2 ELSE 1
MolIndexes(m) == [a \in 1..MolSize(m) |-> First(m) + a - 1]

Charge(i) ==
    CASE i % 4 = 1 -> 2
      [] i % 4 = 2 -> -1
      [] i % 4 = 3 -> 1
      [] OTHER -> 0

\* the sites of particle i: distinct particles are on distinct tracks
Site(i, s) == <<s, i - 1, 2 * s>>

\* Configuration::bond_path: the two particles of a molecule are bonded
BondPath(i, j) == IF MolOf(i) = MolOf(j) THEN "One" ELSE "None"

\* PairRestriction::information
Information(restriction, path) ==
    CASE restriction = "None" -> [excluded |-> FALSE, scaling |-> 1]
      [] restriction = "InterMolecular" ->
            [excluded |-> path # "None", scaling |-> 1]

(***************************************************************************)
(* math.rs, on fixed-point numbers with two decimals                       *)
(***************************************************************************)
\* exp(-num/den), replaced by the decreasing 1/(1 + num/den); exp(-inf) = 0
ExpNeg(num, den) == IF den = 0 THEN 0 ELSE (100 * den) \div (den + num)
\* erfc(alpha r) / r at squared distance r2 (r2 >= 1), decreasing in r2
ErfcOverR(alpha, r2) == 10000 \div (r2 * (1 + alpha * alpha * r2))
\* erf(alpha r) / r at squared distance r2
ErfOverR(alpha, r2) == (100 * alpha * alpha) \div (1 + alpha * alpha * r2)
\* alpha * FRAC_2_SQRT_PI * exp(-alpha^2 r^2)
GaussTerm(alpha, r2) == (113 * alpha * ExpNeg(alpha * alpha * r2, 16)) \div 100

(***************************************************************************)
(* EwaldFactors                                                            *)
(***************************************************************************)
EmptyFactors == [energy |-> <<>>, efield |-> <<>>, virial |-> <<>>, kvecs |-> <<>>]

\* the index triples of the three loops of compute_triclinic, in loop order
\* (BranchXInclusive: the first loop run up to kmax included; BranchZBothSigns:
\* the last loop run over both signs of ikz)
BranchXInclusive(kmax) ==
    [n \in 1..(kmax * (2 * kmax) * (2 * kmax)) |->
        <<1 + (n - 1) \div (4 * kmax * kmax),
          (((n - 1) \div (2 * kmax)) % (2 * kmax)) - kmax,
          ((n - 1) % (2 * kmax)) - kmax>>]
BranchX(kmax) ==
    [n \in 1..((kmax - 1) * (2 * kmax) * (2 * kmax)) |->
        <<1 + (n - 1) \div (4 * kmax * kmax),
          (((n - 1) \div (2 * kmax)) % (2 * kmax)) - kmax,
          ((n - 1) % (2 * kmax)) - kmax>>]
BranchY(kmax) ==
    [n \in 1..((kmax - 1) * (2 * kmax)) |->
        <<0, 1 + (n - 1) \div (2 * kmax), ((n - 1) % (2 * kmax)) - kmax>>]
BranchZBothSigns(kmax) ==
    [n \in 1..(2 * (kmax - 1)) |-> <<0, 0, IF n < kmax THEN n - kmax ELSE n - kmax + 1>>]
BranchZ(kmax) == [n \in 1..(kmax - 1) |-> <<0, 0, n>>]

\* four_pi_v * exp(-k2 * alpha_sq_inv_fourth) / k2
EnergyFactor(cell, alpha, k2) ==
    (1257 * ExpNeg(4 * k2, alpha * alpha)) \div (cell.len[1] * cell.len[2] * cell.len[3] * k2)

\* -2 (1 / k2 + alpha_sq_inv_fourth)
VirialFactor(alpha, k2) ==
    0 - 2 * (100 \div k2 + (IF alpha = 0 THEN 1000000 ELSE 400 \div (alpha * alpha)))

\* energy_factor * (Matrix3::one() + virial_factor * kvec (x) kvec)
VirialEntry(cell, alpha, kvec) ==
    LET k2 == Norm2(kvec)
        ef == EnergyFactor(cell, alpha, k2)
        vf == VirialFactor(alpha, k2)
    IN [r \in 1..3 |-> [c \in 1..3 |->
            ef * ((IF r = c THEN 100 ELSE 0) + vf * kvec[r] * kvec[c])]]

\* EwaldFactors::compute_triclinic: a triple is kept unless k2 > kmax2
\* (kmax2 is stored times 10000)
ComputeTriclinic(cell, parameters) ==
    LET Keep(index) == ~(10000 * Norm2(KVector(cell, index)) > parameters.kmax2)
        kvecs == SelectSeq(BranchX(parameters.kmax), Keep)
                 \o SelectSeq(BranchY(parameters.kmax), Keep)
                 \o SelectSeq(BranchZ(parameters.kmax), Keep)
        K(n) == KVector(cell, kvecs[n])
    IN [kvecs |-> kvecs,
        energy |-> [n \in 1..Len(kvecs) |-> EnergyFactor(cell, parameters.alpha, Norm2(K(n)))],
        efield |-> [n \in 1..Len(kvecs) |->
            [d \in 1..3 |-> 2 * EnergyFactor(cell, parameters.alpha, Norm2(K(n))) * K(n)[d]]],
        virial |-> [n \in 1..Len(kvecs) |-> VirialEntry(cell, parameters.alpha, K(n))]]

\* EwaldFactors::compute: clear, then panic on an infinite cell
Compute(cell, parameters) ==
    IF cell.shape = "Infinite"
    THEN [panic |-> TRUE, factors |-> EmptyFactors]
    ELSE [panic |-> FALSE, factors |-> ComputeTriclinic(cell, parameters)]

(***************************************************************************)
(* Ewald                                                                   *)
(***************************************************************************)
\* Ewald3DArray::zeros((0..0, 0, 0))

\* PI / cutoff in units of pi/8; PI / 0.0 is +inf
DefaultAlpha(cutoff) == IF cutoff = 0 THEN 1000000 ELSE 8 \div cutoff

\* Ewald::new: the result and whether the call panicked
New(cutoff, kmax, alphaArg) ==
    LET alpha == IF alphaArg.some THEN alphaArg.val ELSE DefaultAlpha(cutoff)
    IN IF cutoff < 0 \/ alpha < 0 \/ kmax = 0
       THEN [panic |-> TRUE]
       ELSE [panic |-> FALSE,
             ewald |-> [alpha |-> alpha, rc |-> cutoff, kmax |-> kmax, kmax2 |-> 0,
                        restriction |-> "None",
                        factors |-> EmptyFactors,
                        eikr |-> [natoms |-> 0, at |-> <<>>],
                        rho |-> <<>>,
                        efield |-> <<>>,
                        previous_cell |-> NoneOpt,
                        updater |-> NoneOpt]]

\* a precompute that compares the shapes of the cells, not their values
PrecomputeByShape(e, cell) ==
    IF e.previous_cell.some /\ cell.shape = e.previous_cell.val.shape
    THEN [panic |-> FALSE, ewald |-> e]
    ELSE LET max == VMax(KVector(cell, <<1, 1, 1>>)) * e.kmax
             e1 == [e EXCEPT !.previous_cell = Some(cell),
                             !.kmax2 = 10001 * max * max]
             computed == Compute(cell, e1)
         IN [panic |-> computed.panic,
             ewald |-> [e1 EXCEPT !.factors = computed.factors]]

\* Ewald::precompute
Precompute(e, cell) ==
    IF e.previous_cell.some /\ cell = e.previous_cell.val
    THEN [panic |-> FALSE, ewald |-> e]
    ELSE LET max == VMax(KVector(cell, <<1, 1, 1>>)) * e.kmax
             e1 == [e EXCEPT !.previous_cell = Some(cell),
                             !.kmax2 = 10001 * max * max]
             computed == Compute(cell, e1)
         IN [panic |-> computed.panic,
             ewald |-> [e1 EXCEPT !.factors = computed.factors]]

(***************************************************************************)
(* Sums over sequences, added by halves                                    *)
(***************************************************************************)
RECURSIVE SeqSum(_)
SeqSum(s) ==
    IF Len(s) = 0 THEN 0
    ELSE IF Len(s) = 1 THEN s[1]
    ELSE SeqSum(SubSeq(s, 1, Len(s) \div 2)) + SeqSum(SubSeq(s, Len(s) \div 2 + 1, Len(s)))
RECURSIVE CSeqSum(_)
CSeqSum(s) ==
    IF Len(s) = 0 THEN CZero
    ELSE IF Len(s) = 1 THEN s[1]
    ELSE CAdd(CSeqSum(SubSeq(s, 1, Len(s) \div 2)),
              CSeqSum(SubSeq(s, Len(s) \div 2 + 1, Len(s))))
VZero == <<0, 0, 0>>
VAdd(u, v) == <<u[1] + v[1], u[2] + v[2], u[3] + v[3]>>
VSub(u, v) == <<u[1] - v[1], u[2] - v[2], u[3] - v[3]>>
VScale(q, v) == <<q * v[1], q * v[2], q * v[3]>>
RECURSIVE VSeqSum(_)
VSeqSum(s) ==
    IF Len(s) = 0 THEN VZero
    ELSE IF Len(s) = 1 THEN s[1]
    ELSE VAdd(VSeqSum(SubSeq(s, 1, Len(s) \div 2)),
              VSeqSum(SubSeq(s, Len(s) \div 2 + 1, Len(s))))

\* Configuration::size
Size(cfg) == Len(cfg.pos)
\* Configuration::distance, squared
PairDistance2(cfg, i, j) == Distance2(cfg.cell, cfg.pos[i], cfg.pos[j])
\* Configuration::nearest_image
NearestImage(cfg, i, j) ==
    IF cfg.cell.shape = "Infinite" THEN VSub(cfg.pos[i], cfg.pos[j])
    ELSE [d \in 1..3 |-> WrapAxis(cfg.pos[i][d] - cfg.pos[j][d], cfg.cell.len[d])]

(***************************************************************************)
(* Real space part of the summation                                        *)
(***************************************************************************)
\* kernels that leave out the assert_eq! on the scaling
PairPanicsAnyScaling(e, debug, info, r2) == debug /\ r2 > e.rc * e.rc /\ info.excluded

\* the assert_eq! on the scaling and, in a debug build, the debug_assert!
PairPanics(e, debug, info, r2) ==
    \/ info.scaling # 1
    \/ debug /\ r2 > e.rc * e.rc /\ info.excluded

\* Ewald::real_space_energy_pair, for a pair that passed the assertions
RealSpaceEnergyPair(e, info, qiqj, r2) ==
    IF r2 > e.rc * e.rc THEN 0
    ELSE IF ~info.excluded THEN qiqj * ErfcOverR(e.alpha, r2)
    ELSE 0 - qiqj * ErfOverR(e.alpha, r2)

\* Ewald::real_space_force_pair, for a pair that passed the assertions
RealSpaceForcePair(e, info, qiqj, r2) ==
    IF r2 > e.rc * e.rc THEN 0
    ELSE IF ~info.excluded
         THEN (qiqj * (GaussTerm(e.alpha, r2) + ErfcOverR(e.alpha, r2))) \div r2
    ELSE (qiqj * (GaussTerm(e.alpha, r2) - ErfOverR(e.alpha, r2))) \div r2

\* a call of one of the two kernels: whether it panicked, and its value
PairKernel(e, kernel, debug, info, qiqj, r2) ==
    IF PairPanics(e, debug, info, r2) THEN [panic |-> TRUE]
    ELSE [panic |-> FALSE,
          value |-> IF kernel = "energy" THEN RealSpaceEnergyPair(e, info, qiqj, r2)
                    ELSE RealSpaceForcePair(e, info, qiqj, r2)]

\* the pairs (i, j), i < j, of charged particles visited by the pair loops
ChargedPairs(cfg) ==
    {p \in (1..Size(cfg)) \X (1..Size(cfg)) :
        p[1] < p[2] /\ Charge(p[1]) # 0 /\ Charge(p[2]) # 0}

PairInfo(e, cfg, i, j) == Information(e.restriction, BondPath(i, j))

\* Ewald::real_space_energy
RealSpaceEnergy(e, debug, cfg) ==
    LET Pair(i, j) ==
            IF <<i, j>> \in ChargedPairs(cfg)
            THEN RealSpaceEnergyPair(e, PairInfo(e, cfg, i, j),
                                     Charge(i) * Charge(j), PairDistance2(cfg, i, j))
            ELSE 0
    IN [panic |-> \E p \in ChargedPairs(cfg) :
                    PairPanics(e, debug, PairInfo(e, cfg, p[1], p[2]),
                               PairDistance2(cfg, p[1], p[2])),
        value |-> SeqSum([i \in 1..Size(cfg) |->
                    SeqSum([j \in 1..Size(cfg) |-> Pair(i, j)])])]

\* Ewald::real_space_forces: the array added to `forces` by sum_into
RealSpaceForces(e, debug, cfg) ==
    LET Force(i, j) ==
            IF <<i, j>> \in ChargedPairs(cfg)
            THEN VScale(RealSpaceForcePair(e, PairInfo(e, cfg, i, j),
                                           Charge(i) * Charge(j),
                                           PairDistance2(cfg, i, j)),
                        NearestImage(cfg, i, j))
            ELSE VZero
    IN [panic |-> \E p \in ChargedPairs(cfg) :
                    PairPanics(e, debug, PairInfo(e, cfg, p[1], p[2]),
                               PairDistance2(cfg, p[1], p[2])),
        value |-> [i \in 1..Size(cfg) |->
                    VSub(VSeqSum([j \in 1..Size(cfg) |-> Force(i, j)]),
                         VSeqSum([j \in 1..Size(cfg) |-> Force(j, i)]))]]

\* the pair loops of real_space_atomic_virial and real_space_molecular_virial
\* panic as the force kernel does; the molecular one visits pairs of
\* different molecules only
RealSpaceAtomicVirialPanics(e, debug, cfg) ==
    \E p \in ChargedPairs(cfg) :
        PairPanics(e, debug, PairInfo(e, cfg, p[1], p[2]), PairDistance2(cfg, p[1], p[2]))
RealSpaceMolecularVirialPanics(e, debug, cfg) ==
    \E p \in ChargedPairs(cfg) :
        /\ MolOf(p[1]) # MolOf(p[2])
        /\ PairPanics(e, debug, PairInfo(e, cfg, p[1], p[2]), PairDistance2(cfg, p[1], p[2]))

\* a real-space move cost that returns old - new
RealSpaceMoveMoleculeCostSwapped(e, debug, cfg, molecule_id, new_positions) ==
    LET idx == MolIndexes(molecule_id)
        Others == {j \in 1..Size(cfg) : MolOf(j) # molecule_id /\ Charge(j) # 0}
        Mine == {a \in 1..Len(idx) : Charge(idx[a]) # 0}
        Old(a, j) == IF a \in Mine /\ j \in Others
                     THEN RealSpaceEnergyPair(e, PairInfo(e, cfg, idx[a], j),
                                              Charge(idx[a]) * Charge(j),
                                              PairDistance2(cfg, idx[a], j))
                     ELSE 0
        Nw(a, j) == IF a \in Mine /\ j \in Others
                    THEN RealSpaceEnergyPair(e, PairInfo(e, cfg, idx[a], j),
                                             Charge(idx[a]) * Charge(j),
                                             Distance2(cfg.cell, new_positions[a], cfg.pos[j]))
                    ELSE 0
        old_energy == SeqSum([a \in 1..Len(idx) |-> SeqSum([j \in 1..Size(cfg) |-> Old(a, j)])])
        new_energy == SeqSum([a \in 1..Len(idx) |-> SeqSum([j \in 1..Size(cfg) |-> Nw(a, j)])])
    IN [panic |-> FALSE, value |-> old_energy - new_energy]

\* Ewald::real_space_move_molecule_cost
RealSpaceMoveMoleculeCost(e, debug, cfg, molecule_id, new_positions) ==
    LET idx == MolIndexes(molecule_id)
        Others == {j \in 1..Size(cfg) : MolOf(j) # molecule_id /\ Charge(j) # 0}
        Mine == {a \in 1..Len(idx) : Charge(idx[a]) # 0}
        OldR(a, j) == PairDistance2(cfg, idx[a], j)
        NewR(a, j) == Distance2(cfg.cell, new_positions[a], cfg.pos[j])
        Old(a, j) == IF a \in Mine /\ j \in Others
                     THEN RealSpaceEnergyPair(e, PairInfo(e, cfg, idx[a], j),
                                              Charge(idx[a]) * Charge(j), OldR(a, j))
                     ELSE 0
        Nw(a, j) == IF a \in Mine /\ j \in Others
                    THEN RealSpaceEnergyPair(e, PairInfo(e, cfg, idx[a], j),
                                             Charge(idx[a]) * Charge(j), NewR(a, j))
                    ELSE 0
        old_energy == SeqSum([a \in 1..Len(idx) |-> SeqSum([j \in 1..Size(cfg) |-> Old(a, j)])])
        new_energy == SeqSum([a \in 1..Len(idx) |-> SeqSum([j \in 1..Size(cfg) |-> Nw(a, j)])])
    IN [panic |-> \E a \in Mine, j \in Others :
                    \/ PairPanics(e, debug, PairInfo(e, cfg, idx[a], j), OldR(a, j))
                    \/ PairPanics(e, debug, PairInfo(e, cfg, idx[a], j), NewR(a, j)),
        value |-> new_energy - old_energy]

(***************************************************************************)
(* Self-interaction correction                                             *)
(***************************************************************************)
\* Ewald::self_energy: -alpha / sqrt(PI) * q2
SelfEnergy(e, cfg) ==
    0 - 2216 * e.alpha * SeqSum([i \in 1..Size(cfg) |-> Charge(i) * Charge(i)])

(***************************************************************************)
(* k-space part of the summation                                           *)
(***************************************************************************)
\* the recursion with entry -k a copy of entry k
RECURSIVE PhasePowerNoConj(_, _)
PhasePowerNoConj(phase, k) ==
    IF k = 0 THEN COne
    ELSE IF k = 1 THEN phase
    ELSE IF k > 1 THEN CMul(PhasePowerNoConj(phase, k - 1), phase)
    ELSE PhasePowerNoConj(phase, 0 - k)

\* the recursion of eik_dot_r on the first index: entry 0 is 1, entry 1 is
\* the phase, entry k is entry k - 1 times entry 1, entry -k the conjugate
RECURSIVE PhasePower(_, _)
PhasePower(phase, k) ==
    IF k = 0 THEN COne
    ELSE IF k = 1 THEN phase
    ELSE IF k > 1 THEN CMul(PhasePower(phase, k - 1), phase)
    ELSE CConj(PhasePower(phase, 0 - k))

\* Complex::polar(1.0, kvec * position) for the unit k-vector of an axis
Phase(cell, spatial, position) ==
    CPolar(Dot(KVector(cell, [c \in 1..3 |-> IF c = spatial THEN 1 ELSE 0]), position))

\* the table of phase factors of `positions` for first indexes -kmax..kmax
PhaseTable(cell, kmax, positions) ==
    [t \in ((0 - kmax)..kmax) \X (1..3) \X (1..Len(positions)) |->
        PhasePower(Phase(cell, t[2], positions[t[3]]), t[1])]

\* the structure factor of the k-vectors in kvecs from a table of phases
Rho(kvecs, at, natoms) ==
    [n \in 1..Len(kvecs) |->
        CSeqSum([i \in 1..natoms |->
            CScale(Charge(i),
                   CMul(CMul(at[<<kvecs[n][1], 1, i>>], at[<<kvecs[n][2], 2, i>>]),
                        at[<<kvecs[n][3], 3, i>>]))])]

\* Ewald::eik_dot_r
EikDotR(e, cfg) ==
    LET at == PhaseTable(cfg.cell, e.kmax, cfg.pos)
    IN [e EXCEPT !.eikr = [natoms |-> Size(cfg), at |-> at],
                 !.rho = Rho(e.factors.kvecs, at, Size(cfg))]

\* the zip! macro stops at the shortest of its arguments
ZipLen3(a, b, c) == Min2(Len(a), Min2(Len(b), Len(c)))

\* Ewald::kspace_energy
KspaceEnergy(e, cfg) ==
    LET e1 == EikDotR(e, cfg)
    IN [ewald |-> e1,
        value |-> SeqSum([n \in 1..Len(e1.rho) |->
                    e1.factors.energy[n] * CNorm2(e1.rho[n])])]

\* Ewald::kspace_forces: the electric field at each atom and the array added
\* to `forces`
KspaceForces(e, cfg) ==
    LET e1 == EikDotR(e, cfg)
        kvecs == e1.factors.kvecs
        Field(i) ==
            VSeqSum([n \in 1..Len(kvecs) |->
                VScale(CMul(CMul(CMul(e1.eikr.at[<<kvecs[n][1], 1, i>>],
                                      e1.eikr.at[<<kvecs[n][2], 2, i>>]),
                                 e1.eikr.at[<<kvecs[n][3], 3, i>>]),
                            CConj(e1.rho[n]))[2],
                       e1.factors.efield[n])])
        efield == [i \in 1..Size(cfg) |-> Field(i)]
    IN [ewald |-> [e1 EXCEPT !.efield = efield],
        value |-> [i \in 1..Size(cfg) |-> VScale(Charge(i), efield[i])]]

\* Ewald::kspace_atomic_virial: its effect on the solver
KspaceAtomicVirial(e, cfg) == EikDotR(e, cfg)

\* Ewald::kspace_molecular_virial: its effect on the solver
KspaceMolecularVirial(e, cfg) == KspaceForces(KspaceAtomicVirial(e, cfg), cfg).ewald

\* Index for Ewald3DArray, as delta_rho_move_rigid_molecules reads self.eikr:
\* the read of a particle the array has no column for panics
OutOfBounds(e, molecule_id) ==
    /\ Len(e.factors.kvecs) > 0
    /\ \E a \in 1..MolSize(molecule_id) : MolIndexes(molecule_id)[a] > e.eikr.natoms

\* Ewald::delta_rho_move_rigid_molecules
DeltaRhoMoveRigidMolecules(e, cfg, molecule_id, new_positions) ==
    LET idx == MolIndexes(molecule_id)
        new_energyikr == PhaseTable(cfg.cell, e.kmax, new_positions)
        kvecs == e.factors.kvecs
        OldPhi(n, a) ==
            CMul(CMul(e.eikr.at[<<kvecs[n][1], 1, idx[a]>>],
                      e.eikr.at[<<kvecs[n][2], 2, idx[a]>>]),
                 e.eikr.at[<<kvecs[n][3], 3, idx[a]>>])
        NewPhi(n, a) ==
            CMul(CMul(new_energyikr[<<kvecs[n][1], 1, a>>],
                      new_energyikr[<<kvecs[n][2], 2, a>>]),
                 new_energyikr[<<kvecs[n][3], 3, a>>])
    IN [n \in 1..Len(kvecs) |->
            CSeqSum([a \in 1..Len(idx) |->
                CScale(Charge(idx[a]), CSub(NewPhi(n, a), OldPhi(n, a)))])]

\* a k-space move cost that adds its delta to the delta already pending
KspaceMoveMoleculeCostAccumulating(e, cfg, molecule_id, new_positions) ==
    LET delta_rho == DeltaRhoMoveRigidMolecules(e, cfg, molecule_id, new_positions)
        pending == IF e.updater.some
                   THEN [n \in 1..Len(delta_rho) |->
                            IF n <= Len(e.updater.val)
                            THEN CAdd(delta_rho[n], e.updater.val[n]) ELSE delta_rho[n]]
                   ELSE delta_rho
    IN [ewald |-> [e EXCEPT !.updater = Some(pending)],
        value |-> SeqSum([n \in 1..ZipLen3(e.factors.energy, e.rho, delta_rho) |->
                    e.factors.energy[n] * (CNorm2(CAdd(e.rho[n], delta_rho[n]))
                                           - CNorm2(e.rho[n]))])]

\* a k-space move cost that folds its delta into rho at once
KspaceMoveMoleculeCostEager(e, cfg, molecule_id, new_positions) ==
    LET delta_rho == DeltaRhoMoveRigidMolecules(e, cfg, molecule_id, new_positions)
    IN [ewald |-> [e EXCEPT !.updater = Some(delta_rho),
                            !.rho = [n \in 1..Len(e.rho) |->
                                IF n <= Len(delta_rho) THEN CAdd(e.rho[n], delta_rho[n])
                                ELSE e.rho[n]]],
        value |-> SeqSum([n \in 1..ZipLen3(e.factors.energy, e.rho, delta_rho) |->
                    e.factors.energy[n] * (CNorm2(CAdd(e.rho[n], delta_rho[n]))
                                           - CNorm2(e.rho[n]))])]

\* Ewald::kspace_move_molecule_cost
KspaceMoveMoleculeCost(e, cfg, molecule_id, new_positions) ==
    LET old_energy ==
            SeqSum([n \in 1..Min2(Len(e.factors.energy), Len(e.rho)) |->
                e.factors.energy[n] * CNorm2(e.rho[n])])
        delta_rho == DeltaRhoMoveRigidMolecules(e, cfg, molecule_id, new_positions)
        new_energy ==
            SeqSum([n \in 1..ZipLen3(e.factors.energy, e.rho, delta_rho) |->
                e.factors.energy[n] * CNorm2(CAdd(e.rho[n], delta_rho[n]))])
    IN [ewald |-> [e EXCEPT !.updater = Some(delta_rho)],
        value |-> new_energy - old_energy]

\* the closure stored in Ewald::updater, applied to the solver
ApplyUpdater(e, delta_rho) ==
    [e EXCEPT !.rho = [n \in 1..Len(e.rho) |->
        IF n <= Len(delta_rho) THEN CAdd(e.rho[n], delta_rho[n]) ELSE e.rho[n]]]

(***************************************************************************)
(* SharedEwald: the bodies of the methods, run with the lock held.  Each   *)
(* gives the solver as the call leaves it, whether the call panicked, and  *)
(* the value it returns.                                                   *)
(***************************************************************************)
Panicked(e) == [panic |-> TRUE, ewald |-> e]
Returned(e, v) == [panic |-> FALSE, ewald |-> e, value |-> v]

\* SharedEwald::energy
EnergyBody(e, debug, cfg) ==
    LET pre == Precompute(e, cfg.cell)
        real == RealSpaceEnergy(pre.ewald, debug, cfg)
        self_e == SelfEnergy(pre.ewald, cfg)
        kspace == KspaceEnergy(pre.ewald, cfg)
    IN IF pre.panic \/ real.panic THEN Panicked(pre.ewald)
       ELSE Returned(kspace.ewald, real.value + self_e + kspace.value)

\* a forces that leaves the check of the length to the code under the lock
ForcesLengthUnchecked(forces, cfg) == FALSE

\* assert_eq!(forces.len(), configuration.size()) fails
ForcesLengthMismatch(forces, cfg) == Len(forces) # Size(cfg)

\* SharedEwald::forces, after its first assertion on the length of `forces`;
\* real_space_forces and kspace_forces assert the length again
ForcesBody(e, debug, cfg, forces) ==
    LET pre == Precompute(e, cfg.cell)
        real == RealSpaceForces(pre.ewald, debug, cfg)
        kspace == KspaceForces(pre.ewald, cfg)
    IN IF pre.panic \/ Len(forces) # Size(cfg) \/ real.panic THEN Panicked(pre.ewald)
       ELSE Returned(kspace.ewald,
                     [i \in 1..Size(cfg) |->
                        VAdd(VAdd(forces[i], real.value[i]), kspace.value[i])])

\* SharedEwald::atomic_virial; the matrix it returns is not modelled
AtomicVirialBody(e, debug, cfg) ==
    LET pre == Precompute(e, cfg.cell)
    IN IF pre.panic \/ RealSpaceAtomicVirialPanics(pre.ewald, debug, cfg)
       THEN Panicked(pre.ewald)
       ELSE Returned(KspaceAtomicVirial(pre.ewald, cfg), "Matrix3")

\* SharedEwald::molecular_virial; the matrix it returns is not modelled
MolecularVirialBody(e, debug, cfg) ==
    LET pre == Precompute(e, cfg.cell)
    IN IF pre.panic \/ RealSpaceMolecularVirialPanics(pre.ewald, debug, cfg)
       THEN Panicked(pre.ewald)
       ELSE Returned(KspaceMolecularVirial(pre.ewald, cfg), "Matrix3")

\* SharedEwald::move_molecule_cost
MoveMoleculeCostBody(e, debug, cfg, molecule_id, new_positions) ==
    LET pre == Precompute(e, cfg.cell)
        real == RealSpaceMoveMoleculeCost(pre.ewald, debug, cfg, molecule_id, new_positions)
        kspace == KspaceMoveMoleculeCost(pre.ewald, cfg, molecule_id, new_positions)
    IN IF pre.panic \/ real.panic \/ OutOfBounds(pre.ewald, molecule_id)
       THEN Panicked(pre.ewald)
       ELSE Returned(kspace.ewald, real.value + kspace.value)

\* an update that runs the closure through a reference and leaves it in place
TakeUpdaterByRef(e) == [ewald |-> e, taken |-> e.updater]

\* Option::take on ewald.updater
TakeUpdater(e) == [ewald |-> [e EXCEPT !.updater = NoneOpt], taken |-> e.updater]

\* the call of the closure taken from the updater, if there was one
RunUpdater(e, taken) == IF taken.some THEN ApplyUpdater(e, taken.val) ELSE e

\* SharedEwald::update
UpdateBody(e) ==
    LET took == TakeUpdater(e)
    IN Returned(RunUpdater(took.ewald, took.taken), "unit")

\* SharedEwald::set_restriction
SetRestrictionBody(e, restriction) ==
    Returned([e EXCEPT !.restriction = restriction], "unit")

\* Clone for Ewald
CloneEwald(e) == [e EXCEPT !.updater = NoneOpt]

(***************************************************************************)
(* The RwLock of SharedEwald                                               *)
(***************************************************************************)
FreeLock == [writer |-> NoneOpt, readers |-> {}, poisoned |-> FALSE]
\* a lock that can be taken for writing while another thread holds it
CanWriteUnguarded(l) == TRUE
\* RwLock::write and RwLock::read block until the lock can be taken
CanWrite(l) == ~l.writer.some /\ l.readers = {}
CanRead(l) == ~l.writer.some
\* guards recovered from a poisoned lock instead of expect()
WriteRecovers(l) == FALSE
ReadRecovers(l) == FALSE
\* SharedEwald::write and SharedEwald::read: expect() on a poisoned lock
WritePanics(l) == l.poisoned
ReadPanics(l) == l.poisoned

\* SharedEwald::forces by a caller alone: the solver, the lock and the
\* caller's array as the call leaves them
ForcesCall(e, l, debug, cfg, forces) ==
    IF ForcesLengthMismatch(forces, cfg) \/ WritePanics(l)
    THEN [panic |-> TRUE, ewald |-> e, lock |-> l, forces |-> forces]
    ELSE LET body == ForcesBody(e, debug, cfg, forces)
         IN [panic |-> body.panic,
             ewald |-> body.ewald,
             lock |-> [l EXCEPT !.poisoned = body.panic],
             forces |-> IF body.panic THEN forces ELSE body.value]

(***************************************************************************)
(* A single caller: each call runs from taking the lock to releasing it    *)
(***************************************************************************)
Restrictions == {"None", "InterMolecular"}
Solver == New(2, KMax, NoneOpt).ewald
\* positions for the particles of molecule m, one site per particle
TrialPositions(m) == [(1..MolSize(m)) -> (0..MaxCoord)]
SitePositions(m, trial) == [a \in 1..MolSize(m) |-> Site(MolIndexes(m)[a], trial[a])]
\* Molecule moved: the configuration with new positions for molecule m
Moved(cfg, m, new_positions) ==
    [cfg EXCEPT !.pos = [i \in 1..Size(cfg) |->
        IF MolOf(i) = m THEN new_positions[i - First(m) + 1] ELSE cfg.pos[i]]]

Idle == [t \in {} |-> "idle"]
NoPair == [called |-> FALSE]
NoMonteCarlo == [built |-> FALSE]
NoCtor == [called |-> FALSE]

Init ==
    /\ ewald = Solver
    /\ lock = FreeLock
    /\ workers = [kernel |-> "none"]
    /\ pair = NoPair
    /\ mc = NoMonteCarlo
    /\ system = [cell |-> CellA, pos |-> [i \in Particles |-> Site(i, 0)]]
    /\ driver = [op |-> "new", result |-> [panic |-> FALSE], trial |-> NoneOpt,
                 steps |-> 0, tracked |-> FALSE, rejected |-> FALSE,
                 replaced |-> FALSE]
    /\ threads = Idle
    /\ ctor = NoCtor

\* a call of a method that takes the write lock, by the single caller;
\* `after` is the caller's record once the call has returned
Call(op, body, after) ==
    IF WritePanics(lock)
    THEN /\ driver' = [driver EXCEPT !.op = op, !.result = [panic |-> TRUE],
                                     !.trial = NoneOpt, !.steps = driver.steps + 1]
         /\ UNCHANGED <<ewald, lock>>
    ELSE /\ ewald' = body.ewald
         /\ lock' = [lock EXCEPT !.poisoned = body.panic]
         /\ driver' = IF body.panic
                      THEN [driver EXCEPT !.op = op, !.result = [panic |-> TRUE],
                                          !.trial = NoneOpt, !.tracked = FALSE,
                                          !.steps = driver.steps + 1]
                      ELSE [after EXCEPT !.op = op,
                                         !.result = [panic |-> FALSE, value |-> body.value],
                                         !.steps = driver.steps + 1]

\* a call of a method that takes the read lock, by the single caller
ReadCall(op, value) ==
    /\ driver' = [driver EXCEPT !.op = op, !.steps = driver.steps + 1,
                    !.result = IF ReadPanics(lock) THEN [panic |-> TRUE]
                               ELSE [panic |-> FALSE, value |-> value]]
    /\ UNCHANGED <<ewald, lock>>

\* the single caller makes at most MaxOps calls
CanStep == driver.steps < MaxOps

\* the caller's record after a full evaluation on the current configuration
Evaluated == [driver EXCEPT !.tracked = TRUE]

Energy ==
    /\ CanStep
    /\ ~driver.trial.some
    /\ \E debug \in BOOLEAN :
        Call("energy", EnergyBody(ewald, debug, system), Evaluated)
    /\ UNCHANGED <<system, threads, ctor, pair, mc, workers>>

AtomicVirial ==
    /\ CanStep
    /\ ~driver.trial.some
    /\ \E debug \in BOOLEAN :
        Call("atomic_virial", AtomicVirialBody(ewald, debug, system), Evaluated)
    /\ UNCHANGED <<system, threads, ctor, pair, mc, workers>>

MolecularVirial ==
    /\ CanStep
    /\ ~driver.trial.some
    /\ \E debug \in BOOLEAN :
        Call("molecular_virial", MolecularVirialBody(ewald, debug, system), Evaluated)
    /\ UNCHANGED <<system, threads, ctor, pair, mc, workers>>

\* the caller after SharedEwald::forces returned or panicked
ForcesReturn(made) ==
    /\ ewald' = made.ewald
    /\ lock' = made.lock
    /\ driver' =
         [(IF made.panic THEN driver ELSE Evaluated) EXCEPT
             !.op = "forces",
             !.steps = driver.steps + 1,
             !.tracked = IF made.lock # lock THEN FALSE ELSE @,
             !.result = IF made.panic THEN [panic |-> TRUE, out |-> made.forces]
                        ELSE [panic |-> FALSE, value |-> made.forces,
                              out |-> made.forces]]

\* forces with an output array of the right length, or one entry short: the
\* first assertion of SharedEwald::forces comes before the lock is taken
Forces ==
    /\ CanStep
    /\ ~driver.trial.some
    /\ \E debug \in BOOLEAN, len \in {NParticles - 1, NParticles} :
        ForcesReturn(ForcesCall(ewald, lock, debug, system, [i \in 1..len |-> VZero]))
    /\ UNCHANGED <<system, threads, ctor, pair, mc, workers>>

\* MCMove::cost: the cost of a trial move, asked once the caches are populated
MoveMoleculeCost ==
    /\ CanStep
    /\ ~driver.trial.some
    /\ \E debug \in BOOLEAN, m \in Molecules :
        \E trial \in TrialPositions(m) :
            LET new_positions == SitePositions(m, trial)
            IN Call("move_molecule_cost",
                    MoveMoleculeCostBody(ewald, debug, system, m, new_positions),
                    [driver EXCEPT !.rejected = FALSE,
                        !.replaced = ewald.updater.some,
                        !.trial = Some([molecule_id |-> m,
                                        new_positions |-> new_positions])])
    /\ UNCHANGED <<system, threads, ctor, pair, mc, workers>>

\* MonteCarlo::propagate, accepted branch: apply the move, then cache.update
Accept ==
    /\ CanStep
    /\ driver.trial.some
    /\ system' = Moved(system, driver.trial.val.molecule_id,
                       driver.trial.val.new_positions)
    /\ Call("accept", UpdateBody(ewald),
            [driver EXCEPT !.trial = NoneOpt])
    /\ UNCHANGED <<threads, ctor, pair, mc, workers>>

\* MonteCarlo::propagate, rejected branch: restore; the solver is not called
Reject ==
    /\ CanStep
    /\ driver.trial.some
    /\ driver' = [driver EXCEPT !.op = "reject", !.trial = NoneOpt, !.rejected = TRUE,
                                 !.steps = driver.steps + 1]
    /\ UNCHANGED <<ewald, lock, system, threads, ctor, pair, mc, workers>>

\* GlobalCache::update with no move applied by the caller
Update ==
    /\ CanStep
    /\ ~driver.trial.some
    /\ Call("update", UpdateBody(ewald),
            [driver EXCEPT !.rejected = FALSE,
                !.tracked = driver.tracked /\ ~ewald.updater.some])
    /\ UNCHANGED <<system, threads, ctor, pair, mc, workers>>

\* CoulombicPotential::set_restriction
SetRestriction ==
    /\ CanStep
    /\ ~driver.trial.some
    /\ \E restriction \in Restrictions :
        Call("set_restriction", SetRestrictionBody(ewald, restriction),
             driver)
    /\ UNCHANGED <<system, threads, ctor, pair, mc, workers>>

\* GlobalPotential::cutoff
Cutoff ==
    /\ CanStep
    /\ ~driver.trial.some
    /\ ReadCall("cutoff", Some(ewald.rc))
    /\ UNCHANGED <<system, threads, ctor, pair, mc, workers>>

\* Clone for SharedEwald
Clone ==
    /\ CanStep
    /\ ~driver.trial.some
    /\ ReadCall("clone", CloneEwald(ewald))
    /\ UNCHANGED <<system, threads, ctor, pair, mc, workers>>

\* the caller changes the cell of its configuration
SetCell ==
    /\ CanStep
    /\ ~driver.trial.some
    /\ \E cell \in Cells :
        /\ cell # system.cell
        /\ system' = [system EXCEPT !.cell = cell]
    /\ driver' = [driver EXCEPT !.op = "set_cell", !.tracked = FALSE,
                                 !.steps = driver.steps + 1]
    /\ UNCHANGED <<ewald, lock, threads, ctor, pair, mc, workers>>

Next ==
    \/ Energy
    \/ Forces
    \/ AtomicVirial
    \/ MolecularVirial
    \/ MoveMoleculeCost
    \/ Accept
    \/ Reject
    \/ Update
    \/ SetRestriction
    \/ Cutoff
    \/ Clone
    \/ SetCell

Spec == Init /\ [][Next]_vars

(***************************************************************************)
(* Several threads on one SharedEwald.  A call takes the lock, runs its    *)
(* body in two steps (precompute and the rest, or take and run for update) *)
(* and gives the lock back when it returns; threads holds each thread's    *)
(* position, the solver as the last holder of the write lock left it, the  *)
(* number of closures stored by move_molecule_cost and run by update.      *)
(***************************************************************************)
NThreads == 2
MaxCalls == 4
Threads == 1..NThreads
ComputeOps == {"energy", "forces", "atomic_virial", "molecular_virial", "move_molecule_cost"}

InitConc ==
    /\ ewald = Solver
    /\ lock = FreeLock
    /\ workers = [kernel |-> "none"]
    /\ pair = NoPair
    /\ mc = NoMonteCarlo
    /\ \E cell \in {CellA, Infinite} :
        system = [cell |-> cell, pos |-> [i \in Particles |-> Site(i, 0)]]
    /\ driver = [op |-> "new", result |-> [panic |-> FALSE], trial |-> NoneOpt, steps |-> 0,
                 tracked |-> FALSE, rejected |-> FALSE, replaced |-> FALSE]
    /\ threads = [pc |-> [t \in Threads |-> "idle"],
                  op |-> [t \in Threads |-> "none"],
                  taken |-> [t \in Threads |-> NoneOpt],
                  result |-> [t \in Threads |-> [panic |-> FALSE]],
                  calls |-> 0,
                  committed |-> Solver,
                  stored |-> 0,
                  ran |-> 0]
    /\ ctor = NoCtor

\* thread t is at pc and may start a call
Ready(t) == threads.pc[t] = "idle" /\ threads.calls < MaxCalls
\* thread t unwinds from a panic; the write guard it holds poisons the lock
Unwound(t, op) ==
    [threads EXCEPT !.pc[t] = "idle", !.op[t] = op, !.taken[t] = NoneOpt,
                    !.result[t] = [panic |-> TRUE]]

\* SharedEwald::write at the head of a method
TWrite(t) ==
    /\ Ready(t)
    /\ CanWrite(lock)
    /\ \E op \in ComputeOps \cup {"update", "set_restriction"} :
        IF WritePanics(lock)
        THEN /\ threads' = [Unwound(t, op) EXCEPT !.calls = threads.calls + 1]
             /\ UNCHANGED lock
        ELSE /\ threads' = [threads EXCEPT !.pc[t] = "locked", !.op[t] = op,
                                           !.calls = threads.calls + 1]
             /\ lock' = [lock EXCEPT !.writer = Some(t)]
    /\ UNCHANGED <<ewald, system, driver, ctor, pair, mc, workers>>

\* SharedEwald::forces with an output array one entry short
TForcesShort(t) ==
    /\ Ready(t)
    /\ threads' = [Unwound(t, "forces") EXCEPT !.calls = threads.calls + 1]
    /\ UNCHANGED <<ewald, lock, system, driver, ctor, pair, mc, workers>>

\* ewald.precompute(&configuration.cell) under the write lock
TPrecompute(t) ==
    /\ threads.pc[t] = "locked"
    /\ threads.op[t] \in ComputeOps
    /\ LET pre == Precompute(ewald, system.cell)
       IN /\ ewald' = pre.ewald
          /\ IF pre.panic
             THEN /\ lock' = [lock EXCEPT !.writer = NoneOpt, !.poisoned = TRUE]
                  /\ threads' = [Unwound(t, threads.op[t]) EXCEPT !.committed = pre.ewald]
             ELSE /\ threads' = [threads EXCEPT !.pc[t] = "precomputed"]
                  /\ UNCHANGED lock
    /\ UNCHANGED <<system, driver, ctor, pair, mc, workers>>

\* the write guard is dropped by a panic, which poisons the lock, or kept
\* until the method returns
Finish(t, body, stored) ==
    /\ ewald' = body.ewald
    /\ IF body.panic
       THEN /\ lock' = [lock EXCEPT !.writer = NoneOpt, !.poisoned = TRUE]
            /\ threads' = [Unwound(t, threads.op[t]) EXCEPT !.committed = body.ewald]
       ELSE /\ threads' = [threads EXCEPT !.pc[t] = "done",
                    !.result[t] = [panic |-> FALSE, value |-> body.value],
                    !.stored = @ + stored]
            /\ UNCHANGED lock

\* the rest of energy, forces, atomic_virial and molecular_virial
TCompute(t) ==
    /\ threads.pc[t] = "precomputed"
    /\ threads.op[t] # "move_molecule_cost"
    /\ \E debug \in BOOLEAN :
        LET op == threads.op[t]
        IN Finish(t, CASE op = "energy" -> EnergyBody(ewald, debug, system)
                       [] op = "forces" ->
                            ForcesBody(ewald, debug, system, [i \in 1..Size(system) |-> VZero])
                       [] op = "atomic_virial" -> AtomicVirialBody(ewald, debug, system)
                       [] op = "molecular_virial" -> MolecularVirialBody(ewald, debug, system),
                  0)
    /\ UNCHANGED <<system, driver, ctor, pair, mc, workers>>

\* the rest of move_molecule_cost
TMoveMoleculeCost(t) ==
    /\ threads.pc[t] = "precomputed"
    /\ threads.op[t] = "move_molecule_cost"
    /\ \E debug \in BOOLEAN, m \in Molecules :
        \E trial \in TrialPositions(m) :
            Finish(t, MoveMoleculeCostBody(ewald, debug, system, m, SitePositions(m, trial)), 1)
    /\ UNCHANGED <<system, driver, ctor, pair, mc, workers>>

\* SharedEwald::update: ewald.updater.take()
TTake(t) ==
    /\ threads.pc[t] = "locked"
    /\ threads.op[t] = "update"
    /\ LET took == TakeUpdater(ewald)
       IN /\ ewald' = took.ewald
          /\ threads' = [threads EXCEPT !.pc[t] = "taken", !.taken[t] = took.taken]
    /\ UNCHANGED <<lock, system, driver, ctor, pair, mc, workers>>

\* SharedEwald::update: updater(&mut *ewald), if a closure was taken
TRun(t) ==
    /\ threads.pc[t] = "taken"
    /\ ewald' = RunUpdater(ewald, threads.taken[t])
    /\ threads' = [threads EXCEPT !.pc[t] = "done", !.taken[t] = NoneOpt,
                        !.result[t] = [panic |-> FALSE, value |-> "unit"],
                        !.ran = IF threads.taken[t].some THEN @ + 1 ELSE @]
    /\ UNCHANGED <<lock, system, driver, ctor, pair, mc, workers>>

\* SharedEwald::set_restriction
TSetRestriction(t) ==
    /\ threads.pc[t] = "locked"
    /\ threads.op[t] = "set_restriction"
    /\ \E restriction \in Restrictions :
        ewald' = SetRestrictionBody(ewald, restriction).ewald
    /\ threads' = [threads EXCEPT !.pc[t] = "done",
                        !.result[t] = [panic |-> FALSE, value |-> "unit"]]
    /\ UNCHANGED <<lock, system, driver, ctor, pair, mc, workers>>

\* the write guard is dropped when the method returns
TReturn(t) ==
    /\ threads.pc[t] = "done"
    /\ lock' = [lock EXCEPT !.writer = NoneOpt]
    /\ threads' = [threads EXCEPT !.pc[t] = "idle", !.committed = ewald]
    /\ UNCHANGED <<ewald, system, driver, ctor, pair, mc, workers>>

\* SharedEwald::read at the head of cutoff and clone
TRead(t) ==
    /\ Ready(t)
    /\ CanRead(lock)
    /\ \E op \in {"cutoff", "clone"} :
        IF ReadPanics(lock)
        THEN /\ threads' = [Unwound(t, op) EXCEPT !.calls = threads.calls + 1]
             /\ UNCHANGED lock
        ELSE /\ threads' = [threads EXCEPT !.pc[t] = "reading", !.op[t] = op,
                                           !.calls = threads.calls + 1]
             /\ lock' = [lock EXCEPT !.readers = @ \cup {t}]
    /\ UNCHANGED <<ewald, system, driver, ctor, pair, mc, workers>>

\* cutoff and clone read the solver and drop the read guard
TReadReturn(t) ==
    /\ threads.pc[t] = "reading"
    /\ threads' = [threads EXCEPT !.pc[t] = "idle",
            !.result[t] = [panic |-> FALSE,
                           value |-> IF threads.op[t] = "cutoff" THEN Some(ewald.rc)
                                     ELSE CloneEwald(ewald)]]
    /\ lock' = [lock EXCEPT !.readers = @ \ {t}]
    /\ UNCHANGED <<ewald, system, driver, ctor, pair, mc, workers>>

NextConc ==
    \E t \in Threads :
        \/ TWrite(t)
        \/ TForcesShort(t)
        \/ TPrecompute(t)
        \/ TCompute(t)
        \/ TMoveMoleculeCost(t)
        \/ TTake(t)
        \/ TRun(t)
        \/ TSetRestriction(t)
        \/ TReturn(t)
        \/ TRead(t)
        \/ TReadReturn(t)

SpecConc == InitConc /\ [][NextConc]_vars

(***************************************************************************)
(* Ewald::new on arguments drawn from a range around zero                  *)
(***************************************************************************)
MaxArg == 2

InitNew ==
    /\ ewald = Solver
    /\ lock = FreeLock
    /\ workers = [kernel |-> "none"]
    /\ pair = NoPair
    /\ mc = NoMonteCarlo
    /\ system = [cell |-> CellA, pos |-> [i \in Particles |-> Site(i, 0)]]
    /\ driver = [op |-> "none", result |-> [panic |-> FALSE], trial |-> NoneOpt, steps |-> 0,
                 tracked |-> FALSE, rejected |-> FALSE, replaced |-> FALSE]
    /\ threads = Idle
    /\ \E cutoff \in (0 - MaxArg)..MaxArg, kmax \in 0..MaxArg,
          alpha \in {NoneOpt} \cup {Some(a) : a \in (0 - MaxArg)..MaxArg} :
        ctor = [called |-> FALSE, cutoff |-> cutoff, kmax |-> kmax, alpha |-> alpha]

\* Ewald::new(cutoff, kmax, alpha)
CallNew ==
    /\ ~ctor.called
    /\ LET made == New(ctor.cutoff, ctor.kmax, ctor.alpha)
       IN /\ ctor' = [called |-> TRUE, cutoff |-> ctor.cutoff, kmax |-> ctor.kmax,
                      alpha |-> ctor.alpha, result |-> made]
          /\ ewald' = IF made.panic THEN ewald ELSE made.ewald
    /\ UNCHANGED <<lock, system, driver, threads, pair, mc, workers>>

SpecNew == InitNew /\ [][CallNew]_vars

(***************************************************************************)
(* Ewald::precompute on solvers built with several kmax and alpha, for a   *)
(* sequence of cells; a panic ends the sequence                            *)
(***************************************************************************)
InitFactors ==
    /\ \E cutoff \in 1..MaxArg, kmax \in 1..(KMax + 1),
          alpha \in {NoneOpt} \cup {Some(a) : a \in 1..MaxArg} :
        ewald = New(cutoff, kmax, alpha).ewald
    /\ lock = FreeLock
    /\ workers = [kernel |-> "none"]
    /\ pair = NoPair
    /\ mc = NoMonteCarlo
    /\ \E cell \in Cells :
        system = [cell |-> cell, pos |-> [i \in Particles |-> Site(i, 0)]]
    /\ driver = [op |-> "new", result |-> [panic |-> FALSE], trial |-> NoneOpt, steps |-> 0,
                 tracked |-> FALSE, rejected |-> FALSE, replaced |-> FALSE]
    /\ threads = Idle
    /\ ctor = NoCtor

\* ewald.precompute(&configuration.cell)
CallPrecompute ==
    /\ CanStep
    /\ ~driver.result.panic
    /\ LET pre == Precompute(ewald, system.cell)
       IN /\ ewald' = pre.ewald
          /\ driver' = [driver EXCEPT !.op = "precompute", !.steps = driver.steps + 1,
                                       !.result = [panic |-> pre.panic]]
    /\ UNCHANGED <<lock, system, threads, ctor, pair, mc, workers>>

\* the caller changes the cell of its configuration between two calls
ChangeCell ==
    /\ CanStep
    /\ ~driver.result.panic
    /\ \E cell \in Cells :
        /\ cell # system.cell
        /\ system' = [system EXCEPT !.cell = cell]
    /\ driver' = [driver EXCEPT !.op = "set_cell", !.steps = driver.steps + 1]
    /\ UNCHANGED <<ewald, lock, threads, ctor, pair, mc, workers>>

NextFactors == CallPrecompute \/ ChangeCell

SpecFactors == InitFactors /\ [][NextFactors]_vars

(***************************************************************************)
(* The real-space pair kernels on restriction informations, charges and    *)
(* squared distances drawn from ranges around the cutoff, in a debug and   *)
(* in a release build                                                      *)
(***************************************************************************)
InitPair ==
    /\ ewald = Solver
    /\ lock = FreeLock
    /\ workers = [kernel |-> "none"]
    /\ system = [cell |-> CellA, pos |-> [i \in Particles |-> Site(i, 0)]]
    /\ driver = [op |-> "none", result |-> [panic |-> FALSE], trial |-> NoneOpt, steps |-> 0,
                 tracked |-> FALSE, rejected |-> FALSE, replaced |-> FALSE]
    /\ threads = Idle
    /\ ctor = NoCtor
    /\ mc = NoMonteCarlo
    /\ \E kernel \in {"energy", "force"}, debug \in BOOLEAN, excluded \in BOOLEAN,
          scaling \in 0..MaxArg, qiqj \in {0 - 2, 1},
          r2 \in 1..(Solver.rc * Solver.rc + MaxArg) :
        pair = [called |-> FALSE, kernel |-> kernel, debug |-> debug,
                info |-> [excluded |-> excluded, scaling |-> scaling],
                qiqj |-> qiqj, r2 |-> r2]

\* real_space_energy_pair(info, qiqj, r) or real_space_force_pair(info, qiqj, r)
CallPairKernel ==
    /\ ~pair.called
    /\ pair' = [called |-> TRUE, kernel |-> pair.kernel, debug |-> pair.debug,
                info |-> pair.info, qiqj |-> pair.qiqj, r2 |-> pair.r2,
                result |-> PairKernel(ewald, pair.kernel, pair.debug, pair.info,
                                      pair.qiqj, pair.r2)]
    /\ UNCHANGED <<ewald, lock, system, driver, threads, ctor, mc, workers>>

SpecPair == InitPair /\ [][CallPairKernel]_vars

(***************************************************************************)
(* f64 values of the Monte Carlo propagator (lumol-sim/src/mc/             *)
(* monte_carlo.rs) as exact fractions num/den with den >= 0.  A zero        *)
(* denominator is the value of a division by zero (0/0 is NaN): it         *)
(* compares false with everything and absorbs sums.                        *)
(***************************************************************************)
Rat(n, d) == [num |-> n, den |-> d]

RatAdd(a, b) ==
    IF a.den = 0 \/ b.den = 0 THEN Rat(0, 0)
    ELSE Rat(a.num * b.den + b.num * a.den, a.den * b.den)

RatDiv(a, b) ==
    IF a.den = 0 \/ b.den = 0 THEN Rat(0, 0)
    ELSE Rat(a.num * b.den, a.den * b.num)

RatLess(a, b) == a.den # 0 /\ b.den # 0 /\ a.num * b.den < b.num * a.den

RECURSIVE RatSum(_)
RatSum(s) ==
    IF s = <<>> THEN Rat(0, 1)
    ELSE RatAdd(RatSum(SubSeq(s, 1, Len(s) - 1)), s[Len(s)])

(***************************************************************************)
(* MoveCounter                                                             *)
(***************************************************************************)
SetAcceptanceInclusive(counter, target_acceptance) ==
    IF target_acceptance.some
       /\ ~(~RatLess(target_acceptance.val, Rat(0, 1))
            /\ ~RatLess(Rat(1, 1), target_acceptance.val))
    THEN [panic |-> TRUE, counter |-> counter]
    ELSE [panic |-> FALSE,
          counter |-> [counter EXCEPT !.target_acceptance = target_acceptance]]

\* MoveCounter::set_acceptance
SetAcceptance(counter, target_acceptance) ==
    IF target_acceptance.some
       /\ ~(RatLess(Rat(0, 1), target_acceptance.val)
            /\ RatLess(target_acceptance.val, Rat(1, 1)))
    THEN [panic |-> TRUE, counter |-> counter]
    ELSE [panic |-> FALSE,
          counter |-> [counter EXCEPT !.target_acceptance = target_acceptance]]

\* MoveCounter::new
MoveCounterNew(target_acceptance) ==
    SetAcceptance([total_attempted |-> 0, total_accepted |-> 0, accepted |-> 0,
                   attempted |-> 0, target_acceptance |-> NoneOpt],
                  target_acceptance)

\* MoveCounter::reject
CounterReject(counter) ==
    [counter EXCEPT !.total_attempted = @ + 1, !.attempted = @ + 1]

\* MoveCounter::accept
CounterAccept(counter) ==
    [counter EXCEPT !.total_attempted = @ + 1, !.attempted = @ + 1,
                    !.accepted = @ + 1, !.total_accepted = @ + 1]

\* an update that resets the overall counts too
CounterUpdateOverall(counter) ==
    [counter EXCEPT !.accepted = 0, !.attempted = 0,
                    !.total_accepted = 0, !.total_attempted = 0]

\* MoveCounter::update
CounterUpdate(counter) == [counter EXCEPT !.accepted = 0, !.attempted = 0]

\* MoveCounter::acceptance
CounterAcceptance(counter) ==
    IF counter.total_attempted = 0 THEN Rat(0, 1)
    ELSE RatDiv(Rat(counter.total_accepted, 1), Rat(counter.total_attempted, 1))

ComputeScalingFactorOverall(counter) ==
    IF counter.target_acceptance.some
    THEN IF counter.attempted = 0 THEN NoneOpt
         ELSE LET quotient == RatDiv(RatDiv(Rat(counter.total_accepted, 1),
                                            Rat(counter.total_attempted, 1)),
                                     counter.target_acceptance.val)
              IN  IF RatLess(Rat(6, 5), quotient) THEN Some(Rat(6, 5))
                  ELSE IF RatLess(quotient, Rat(4, 5)) THEN Some(Rat(4, 5))
                  ELSE Some(quotient)
    ELSE NoneOpt

\* MoveCounter::compute_scaling_factor
ComputeScalingFactor(counter) ==
    IF counter.target_acceptance.some
    THEN IF counter.attempted = 0 THEN NoneOpt
         ELSE LET quotient == RatDiv(RatDiv(Rat(counter.accepted, 1),
                                            Rat(counter.attempted, 1)),
                                     counter.target_acceptance.val)
              IN  IF RatLess(Rat(6, 5), quotient) THEN Some(Rat(6, 5))
                  ELSE IF RatLess(quotient, Rat(4, 5)) THEN Some(Rat(4, 5))
                  ELSE Some(quotient)
    ELSE NoneOpt

(***************************************************************************)
(* MonteCarlo: the list of moves (each move stands for its counter) and    *)
(* the frequencies                                                         *)
(***************************************************************************)
\* MonteCarlo::from_rng
MonteCarloNew ==
    [moves |-> <<>>, frequencies |-> <<>>, initialized |-> FALSE, update_frequency |-> 0]

\* MonteCarlo::add and MonteCarlo::add_move_with_acceptance
AddMove(self, frequency, target_acceptance) ==
    IF self.initialized THEN [panic |-> TRUE, self |-> self]
    ELSE LET made == MoveCounterNew(target_acceptance)
         IN  IF made.panic THEN [panic |-> TRUE, self |-> self]
             ELSE [panic |-> FALSE,
                   self |-> [self EXCEPT
                       !.moves = Append(@, made.counter),
                       !.frequencies = Append(@, Rat(frequency, 1))]]

\* The loop over 1..frequencies.len() that makes the frequencies cumulative
RECURSIVE Cumulative(_)
Cumulative(s) ==
    IF Len(s) <= 1 THEN s
    ELSE LET head == Cumulative(SubSeq(s, 1, Len(s) - 1))
         IN  Append(head, RatAdd(s[Len(s)], head[Len(head)]))

NormalizeFrequenciesAgain(self) ==
    IF Len(self.frequencies) # Len(self.moves) THEN [panic |-> TRUE, self |-> self]
    ELSE IF self.frequencies = <<>> THEN [panic |-> FALSE, self |-> self]
    ELSE LET sum == RatSum(self.frequencies)
             normalized == [i \in 1..Len(self.frequencies) |->
                               RatDiv(self.frequencies[i], sum)]
             cumulative == Cumulative(normalized)
         IN  [panic |-> FALSE,
              self |-> [self EXCEPT
                  !.initialized = TRUE,
                  !.frequencies = [cumulative EXCEPT ![Len(cumulative)] = Rat(1, 1)]]]

\* MonteCarlo::normalize_frequencies
NormalizeFrequencies(self) ==
    IF Len(self.frequencies) # Len(self.moves) THEN [panic |-> TRUE, self |-> self]
    ELSE IF self.frequencies = <<>> THEN [panic |-> FALSE, self |-> self]
    ELSE IF self.initialized THEN [panic |-> FALSE, self |-> self]
    ELSE LET sum == RatSum(self.frequencies)
             normalized == [i \in 1..Len(self.frequencies) |->
                               RatDiv(self.frequencies[i], sum)]
             cumulative == Cumulative(normalized)
         IN  [panic |-> FALSE,
              self |-> [self EXCEPT
                  !.initialized = TRUE,
                  !.frequencies = [cumulative EXCEPT ![Len(cumulative)] = Rat(1, 1)]]]

(***************************************************************************)
(* A caller of the propagator.  added holds the frequencies given to the   *)
(* calls of add that returned, setups counts the calls of setup, last is   *)
(* the latest call with what it returned.                                  *)
(***************************************************************************)
MaxMoves == 2

MaxFreq == 2

MaxAttempts == 2

MaxSetups == 2

\* target acceptances given by the caller: none, and values below, at, between
\* and above the two limits
Targets ==
    {NoneOpt} \cup
    {Some(a) : a \in {Rat(0 - 1, 10), Rat(0, 1), Rat(1, 2), Rat(1, 1), Rat(11, 10)}}

InitMC ==
    /\ ewald = Solver
    /\ lock = FreeLock
    /\ workers = [kernel |-> "none"]
    /\ system = [cell |-> CellA, pos |-> [i \in Particles |-> Site(i, 0)]]
    /\ driver = [op |-> "none", result |-> [panic |-> FALSE], trial |-> NoneOpt, steps |-> 0,
                 tracked |-> FALSE, rejected |-> FALSE, replaced |-> FALSE]
    /\ threads = Idle
    /\ ctor = NoCtor
    /\ pair = NoPair
    /\ mc = [built |-> TRUE, self |-> MonteCarloNew, added |-> <<>>, setups |-> 0,
             last |-> [op |-> "new", panic |-> FALSE, setups |-> 0]]

Called(self, added, setups, last) ==
    /\ mc' = [mc EXCEPT !.self = self, !.added = added, !.setups = setups,
                         !.last = last]
    /\ UNCHANGED <<ewald, lock, system, driver, threads, ctor, pair, workers>>

\* mc.add(mcmove, frequency)
MCAdd ==
    /\ mc.self.initialized \/ Len(mc.self.moves) < MaxMoves
    /\ \E frequency \in 0..MaxFreq :
        LET made == AddMove(mc.self, frequency, NoneOpt)
        IN  Called(made.self,
                   IF made.panic THEN mc.added ELSE Append(mc.added, frequency),
                   mc.setups,
                   [op |-> "add", panic |-> made.panic, setups |-> mc.setups])

\* mc.add_move_with_acceptance(mcmove, frequency, target_acceptance)
MCAddMoveWithAcceptance ==
    /\ mc.self.initialized \/ Len(mc.self.moves) < MaxMoves
    /\ \E frequency \in 0..MaxFreq, target_acceptance \in {t \in Targets : t.some} :
        LET made == AddMove(mc.self, frequency, target_acceptance)
        IN  Called(made.self,
                   IF made.panic THEN mc.added ELSE Append(mc.added, frequency),
                   mc.setups,
                   [op |-> "add_move_with_acceptance", panic |-> made.panic,
                    setups |-> mc.setups, target_acceptance |-> target_acceptance])

\* mc.setup(system): normalize_frequencies, then the cache and the moves are
\* set up, which changes neither the list of moves nor the frequencies
MCSetup ==
    /\ mc.setups < MaxSetups
    /\ LET made == NormalizeFrequencies(mc.self)
       IN  Called(made.self, mc.added, mc.setups + 1,
                  [op |-> "setup", panic |-> made.panic, setups |-> mc.setups])

\* mc.moves[i].1.set_acceptance(target_acceptance)
MCSetAcceptance ==
    \E i \in 1..Len(mc.self.moves), target_acceptance \in Targets :
        LET made == SetAcceptance(mc.self.moves[i], target_acceptance)
        IN  Called([mc.self EXCEPT !.moves[i] = made.counter], mc.added, mc.setups,
                   [op |-> "set_acceptance", panic |-> made.panic, setups |-> mc.setups,
                    move |-> i, target_acceptance |-> target_acceptance])

\* mc.moves[i].1.accept()
MCAccept ==
    \E i \in 1..Len(mc.self.moves) :
        /\ mc.self.moves[i].total_attempted < MaxAttempts
        /\ Called([mc.self EXCEPT !.moves[i] = CounterAccept(@)], mc.added, mc.setups,
                  [op |-> "accept", panic |-> FALSE, setups |-> mc.setups, move |-> i])

\* mc.moves[i].1.reject()
MCReject ==
    \E i \in 1..Len(mc.self.moves) :
        /\ mc.self.moves[i].total_attempted < MaxAttempts
        /\ Called([mc.self EXCEPT !.moves[i] = CounterReject(@)], mc.added, mc.setups,
                  [op |-> "reject", panic |-> FALSE, setups |-> mc.setups, move |-> i])

\* mc.moves[i].1.update()
MCUpdate ==
    \E i \in 1..Len(mc.self.moves) :
        Called([mc.self EXCEPT !.moves[i] = CounterUpdate(@)], mc.added, mc.setups,
                  [op |-> "update", panic |-> FALSE, setups |-> mc.setups, move |-> i])

\* mc.moves[i].1.compute_scaling_factor()
MCComputeScalingFactor ==
    \E i \in 1..Len(mc.self.moves) :
        Called(mc.self, mc.added, mc.setups,
               [op |-> "compute_scaling_factor", panic |-> FALSE, setups |-> mc.setups,
                move |-> i, value |-> ComputeScalingFactor(mc.self.moves[i])])

\* mc.moves[i].1.acceptance()
MCAcceptance ==
    \E i \in 1..Len(mc.self.moves) :
        Called(mc.self, mc.added, mc.setups,
               [op |-> "acceptance", panic |-> FALSE, setups |-> mc.setups,
                move |-> i, value |-> CounterAcceptance(mc.self.moves[i])])

NextMC ==
    \/ MCAdd
    \/ MCAddMoveWithAcceptance
    \/ MCSetup
    \/ MCSetAcceptance

SpecMC == InitMC /\ [][NextMC]_vars

(***************************************************************************)
(* The counter of one registered move, driven through its public methods   *)
(***************************************************************************)
InitCounter ==
    /\ ewald = Solver
    /\ lock = FreeLock
    /\ workers = [kernel |-> "none"]
    /\ system = [cell |-> CellA, pos |-> [i \in Particles |-> Site(i, 0)]]
    /\ driver = [op |-> "none", result |-> [panic |-> FALSE], trial |-> NoneOpt, steps |-> 0,
                 tracked |-> FALSE, rejected |-> FALSE, replaced |-> FALSE]
    /\ threads = Idle
    /\ ctor = NoCtor
    /\ pair = NoPair
    /\ \E target_acceptance \in Targets :
        LET made == AddMove(MonteCarloNew, 1, target_acceptance)
        IN  /\ ~made.panic
            /\ mc = [built |-> TRUE, self |-> made.self, added |-> <<1>>, setups |-> 0,
                     last |-> [op |-> "new", panic |-> FALSE, setups |-> 0]]

NextCounter ==
    \/ MCSetAcceptance
    \/ MCAccept
    \/ MCReject
    \/ MCUpdate
    \/ MCComputeScalingFactor
    \/ MCAcceptance

SpecCounter == InitCounter /\ [][NextCounter]_vars

(***************************************************************************)
(* The Rotate move (lumol-sim/src/mc/moves/rotate.rs).  Molecules are      *)
(* numbered from 1, their hash is their size, the rotations are the half   *)
(* turns about the coordinate axes, which keep the lattice, and an angle   *)
(* is a fraction in radians.                                               *)
(***************************************************************************)
\* usize::MAX, the index of no molecule
NoMolecule == 0

Pi == Rat(355, 113)

RatMul(a, b) == Rat(a.num * b.num, a.den * b.den)

\* Rotate::new
RotateNew(theta, hash) ==
    IF ~RatLess(Rat(0, 1), theta) THEN [panic |-> TRUE]
    ELSE [panic |-> FALSE,
          move |-> [hash |-> hash, molid |-> NoMolecule, newpos |-> <<>>,
                    theta |-> theta]]

\* select_molecule: None when no molecule has the hash, else any of them
SelectMolecule(cfg, hash) ==
    LET matching == {n \in {MolOf(i) : i \in 1..Size(cfg)} :
                        ~hash.some \/ MolSize(n) = hash.val}
    IN  IF matching = {} THEN {NoneOpt} ELSE {Some(n) : n \in matching}

\* twice Molecule::center_of_mass, for particles of equal masses
TwiceCenterOfMass(cfg, n) ==
    [c \in 1..3 |-> IF MolSize(n) = 1 THEN 2 * cfg.pos[First(n)][c]
                    ELSE cfg.pos[First(n)][c] + cfg.pos[First(n) + 1][c]]

\* rotate_around_axis: no turn for axis 0, a half turn about axis 1, 2 or 3
RotateAroundAxis(positions, twice_com, axis) ==
    [a \in 1..Len(positions) |->
        [c \in 1..3 |->
            LET twice_oldpos == 2 * positions[a][c] - twice_com[c]
            IN  (twice_com[c] + (IF axis = 0 \/ axis = c THEN twice_oldpos
                                 ELSE 0 - twice_oldpos)) \div 2]]

\* Rotate::prepare
RotatePrepare(move, cfg, selected, axis) ==
    IF ~selected.some THEN [ok |-> FALSE, move |-> move, system |-> cfg]
    ELSE LET molid == selected.val
         IN  [ok |-> TRUE,
              move |-> [move EXCEPT
                  !.molid = molid,
                  !.newpos = RotateAroundAxis(
                      [a \in 1..MolSize(molid) |-> cfg.pos[MolIndexes(molid)[a]]],
                      TwiceCenterOfMass(cfg, molid), axis)],
              system |-> cfg]

\* Rotate::apply
RotateApply(move, cfg) ==
    [cfg EXCEPT !.pos = [i \in 1..Size(cfg) |->
        IF MolOf(i) = move.molid /\ i - First(move.molid) + 1 <= Len(move.newpos)
        THEN move.newpos[i - First(move.molid) + 1]
        ELSE cfg.pos[i]]]

\* a restore that writes the stored positions
RotateRestoreWrites(move, cfg) == RotateApply(move, cfg)

\* Rotate::restore
RotateRestore(move, cfg) == cfg

\* Rotate::update_amplitude
RotateUpdateAmplitude(move, scaling_factor) ==
    IF scaling_factor.some
    THEN LET scaled == RatMul(scaling_factor.val, move.theta)
         IN  IF scaled.den # 0 /\ ~RatLess(Pi, scaled)
                /\ ~RatLess(scaled, Rat(0 - Pi.num, Pi.den))
             THEN [move EXCEPT !.theta = scaled]
             ELSE move
    ELSE move

(***************************************************************************)
(* MonteCarlo::propagate.  mc.rotate[i] is the move and mc.self.moves[i]   *)
(* the counter of the i-th registered move; trace lists the calls made by  *)
(* propagate in order, each with the positions it leaves.                  *)
(***************************************************************************)
MaxPropagates == 2

MaxUpdateFrequency == 2

\* values of rng.gen()
Probabilities == {Rat(1, 4), Rat(3, 4)}

\* values of beta * cache.move_molecule_cost(...)
Costs == {0 - 1, 0, 1}

\* MonteCarlo::set_amplitude_update_frequency
SetAmplitudeUpdateFrequency(self, frequency) ==
    [self EXCEPT !.update_frequency = frequency]

\* the move found for a probability: the first with probability <= frequency
FindMove(frequencies, probability) ==
    LET found == {i \in 1..Len(frequencies) :
                     /\ frequencies[i].den # 0
                     /\ ~RatLess(frequencies[i], probability)}
    IN  IF found = {} THEN NoneOpt
        ELSE Some(CHOOSE i \in found : \A j \in found : i <= j)

\* a move accepted by the random draw only
AcceptedByDraw(cost, below) == below

\* cost <= 0.0 || rng.gen() < exp(-cost); below is the outcome of the draw
Accepted(cost, below) == cost <= 0 \/ below

Entry(call, cfg) == [call |-> call, pos |-> cfg.pos]

\* MonteCarlo::propagate once the move i is found
Propagate(self, rotate, cfg, i, selected, axis, cost, below) ==
    LET prepared == RotatePrepare(rotate[i], cfg, selected, axis)
        accepted == Accepted(cost, below)
        applied == RotateApply(prepared.move, prepared.system)
        restored == RotateRestore(prepared.move, prepared.system)
        counter == IF accepted THEN CounterAccept(self.moves[i])
                   ELSE CounterReject(self.moves[i])
        update == counter.attempted = self.update_frequency
    IN  IF ~prepared.ok
        THEN [self |-> self, rotate |-> rotate, system |-> prepared.system,
              trace |-> <<Entry("prepare", prepared.system)>>]
        ELSE [self |-> [self EXCEPT !.moves[i] =
                           IF update THEN CounterUpdate(counter) ELSE counter],
              rotate |-> [rotate EXCEPT ![i] =
                           IF update
                           THEN RotateUpdateAmplitude(prepared.move,
                                                      ComputeScalingFactor(counter))
                           ELSE prepared.move],
              system |-> IF accepted THEN applied ELSE restored,
              trace |-> <<Entry("prepare", prepared.system),
                          Entry("cost", prepared.system)>>
                        \o (IF accepted
                            THEN <<Entry("apply", applied),
                                   Entry("cache.update", applied),
                                   Entry("accept", applied)>>
                            ELSE <<Entry("restore", restored),
                                   Entry("reject", restored)>>)
                        \o (IF update
                            THEN <<Entry("update_amplitude",
                                         IF accepted THEN applied ELSE restored),
                                   Entry("update",
                                         IF accepted THEN applied ELSE restored)>>
                            ELSE <<>>)]

\* k calls of add_move_with_acceptance and add: the first move has a target
\* acceptance
RECURSIVE Registered(_, _)
Registered(frequencies, k) ==
    IF k = 0 THEN MonteCarloNew
    ELSE AddMove(Registered(frequencies, k - 1), frequencies[k],
                 IF k = 1 THEN Some(Rat(1, 2)) ELSE NoneOpt).self

\* the moves registered before the simulation starts: the first has a wide
\* amplitude and any hash, the others rotate any molecule
InitPropagate ==
    /\ ewald = Solver
    /\ lock = FreeLock
    /\ workers = [kernel |-> "none"]
    /\ system = [cell |-> CellA, pos |-> [i \in Particles |-> Site(i, 1)]]
    /\ driver = [op |-> "none", result |-> [panic |-> FALSE], trial |-> NoneOpt, steps |-> 0,
                 tracked |-> FALSE, rejected |-> FALSE, replaced |-> FALSE]
    /\ threads = Idle
    /\ ctor = NoCtor
    /\ pair = NoPair
    /\ \E n \in 0..MaxMoves :
       \E frequencies \in [(1..n) -> {1, MaxFreq}],
          hash \in {NoneOpt, Some(2), Some(3)} :
        /\ n = 0 => hash = NoneOpt
        /\ mc = [built |-> TRUE, self |-> Registered(frequencies, n),
                 added |-> [k \in 1..n |-> frequencies[k]], setups |-> 0,
                 rotate |-> [k \in 1..n |->
                     RotateNew(IF k = 1 THEN Rat(3, 1) ELSE Rat(1, 1),
                               IF k = 1 THEN hash ELSE NoneOpt).move],
                 calls |-> 0,
                 last |-> [op |-> "new", panic |-> FALSE, setups |-> 0]]

\* mc.set_amplitude_update_frequency(frequency)
MCSetAmplitudeUpdateFrequency ==
    \E frequency \in 0..MaxUpdateFrequency :
        Called(SetAmplitudeUpdateFrequency(mc.self, frequency), mc.added, mc.setups,
               [op |-> "set_amplitude_update_frequency", panic |-> FALSE,
                setups |-> mc.setups, frequency |-> frequency])

\* the caller's record of a call of propagate and the system it leaves
Propagated(self, rotate, cfg, last) ==
    /\ mc' = [mc EXCEPT !.self = self, !.rotate = rotate, !.calls = @ + 1,
                        !.last = last]
    /\ system' = cfg
    /\ UNCHANGED <<ewald, lock, driver, threads, ctor, pair, workers>>

\* mc.propagate(system)
MCPropagate ==
    /\ mc.calls < MaxPropagates
    /\ \E probability \in Probabilities :
        LET found == FindMove(mc.self.frequencies, probability)
        IN  IF ~found.some
            THEN Propagated(mc.self, mc.rotate, system,
                            [op |-> "propagate", panic |-> TRUE, setups |-> mc.setups,
                             before |-> system.pos, trace |-> <<>>])
            ELSE \E selected \in SelectMolecule(system, mc.rotate[found.val].hash),
                    axis \in 0..3, cost \in Costs, below \in BOOLEAN :
                    LET made == Propagate(mc.self, mc.rotate, system, found.val,
                                          selected, axis, cost, below)
                    IN  Propagated(made.self, made.rotate, made.system,
                                   [op |-> "propagate", panic |-> FALSE,
                                    setups |-> mc.setups, move |-> found.val,
                                    cost |-> cost, before |-> system.pos,
                                    trace |-> made.trace])

NextPropagate ==
    \/ MCSetup
    \/ MCSetAmplitudeUpdateFrequency
    \/ MCPropagate

SpecPropagate == InitPropagate /\ [][NextPropagate]_vars

(***************************************************************************)
(* The reductions of real_space_forces and kspace_forces.  The iterations  *)
(* of the parallel loop are taken in index order, each by any worker, on   *)
(* the private buffer of that worker; in exact arithmetic the order in     *)
(* which a worker adds its iterations does not change its buffer, so the   *)
(* runs differ by the assignment of iterations to workers only.            *)
(***************************************************************************)
NWorkers == 2

\* an iteration that leaves out the reaction on particle j
RealSpaceForcesIterationOneSided(e, cfg, local, i) ==
    IF Charge(i) = 0 THEN local
    ELSE LET Force(j) ==
                 IF Charge(j) = 0 THEN VZero
                 ELSE VScale(RealSpaceForcePair(e, PairInfo(e, cfg, i, j),
                                                Charge(i) * Charge(j),
                                                PairDistance2(cfg, i, j)),
                             NearestImage(cfg, i, j))
         IN  [k \in 1..Len(local) |->
                IF k = i
                THEN VAdd(local[k], VSeqSum([j \in 1..Size(cfg) |->
                                                IF j > i THEN Force(j) ELSE VZero]))
                ELSE local[k]]

\* iteration i of the parallel loop of real_space_forces, on the buffer
\* `local` of the worker that runs it
RealSpaceForcesIteration(e, cfg, local, i) ==
    IF Charge(i) = 0 THEN local
    ELSE LET Force(j) ==
                 IF Charge(j) = 0 THEN VZero
                 ELSE VScale(RealSpaceForcePair(e, PairInfo(e, cfg, i, j),
                                                Charge(i) * Charge(j),
                                                PairDistance2(cfg, i, j)),
                             NearestImage(cfg, i, j))
         IN  [k \in 1..Len(local) |->
                IF k = i
                THEN VAdd(local[k], VSeqSum([j \in 1..Size(cfg) |->
                                                IF j > i THEN Force(j) ELSE VZero]))
                ELSE IF k > i THEN VSub(local[k], Force(k))
                ELSE local[k]]

\* the iteration of the parallel loop of kspace_forces for the n-th k-vector
KspaceForcesIteration(e, local, n) ==
    LET kvecs == e.factors.kvecs
    IN  [i \in 1..Len(local) |->
            VAdd(local[i],
                 VScale(CMul(CMul(CMul(e.eikr.at[<<kvecs[n][1], 1, i>>],
                                       e.eikr.at[<<kvecs[n][2], 2, i>>]),
                                  e.eikr.at[<<kvecs[n][3], 3, i>>]),
                             CConj(e.rho[n]))[2],
                        e.factors.efield[n]))]

\* ThreadLocalVec::sum_into: every buffer is added to `output`, entry by entry
SumInto(locals, output) ==
    [i \in 1..Len(output) |->
        VAdd(output[i], VSeqSum([w \in 1..Len(locals) |-> locals[w][i]]))]

\* the start of the parallel loop of real_space_forces or of kspace_forces
\* (after its eik_dot_r), called with an array that holds forces already
InitReduce ==
    /\ lock = FreeLock
    /\ driver = [op |-> "none", result |-> [panic |-> FALSE], trial |-> NoneOpt, steps |-> 0,
                 tracked |-> FALSE, rejected |-> FALSE, replaced |-> FALSE]
    /\ threads = Idle
    /\ ctor = NoCtor
    /\ pair = NoPair
    /\ mc = NoMonteCarlo
    /\ \E s \in [Particles -> (0..MaxCoord)], kernel \in {"real", "kspace"} :
        /\ s[1] = 0
        /\ system = [cell |-> CellA, pos |-> [i \in Particles |-> Site(i, s[i])]]
        /\ ewald = EikDotR(Precompute(Solver, CellA).ewald, system)
        /\ workers = [kernel |-> kernel, next |-> 1, done |-> FALSE,
                      local |-> [w \in 1..NWorkers |-> [i \in Particles |-> VZero]],
                      before |-> [i \in Particles |-> <<i, 0, 0 - i>>],
                      forces |-> [i \in Particles |-> <<i, 0, 0 - i>>]]

\* a worker runs the next iteration of the parallel loop
WorkerRuns ==
    /\ workers.next <= (IF workers.kernel = "real" THEN Size(system)
                        ELSE Len(ewald.factors.kvecs))
    /\ \E w \in 1..NWorkers :
        workers' = [workers EXCEPT
            !.next = @ + 1,
            !.local[w] = IF workers.kernel = "real"
                         THEN RealSpaceForcesIteration(ewald, system, @, workers.next)
                         ELSE KspaceForcesIteration(ewald, @, workers.next)]
    /\ UNCHANGED <<ewald, lock, system, driver, threads, ctor, pair, mc>>

\* after the loop: sum_into, and for kspace_forces the loop that adds
\* charge * field to the forces
Gather ==
    /\ ~workers.done
    /\ workers.next > (IF workers.kernel = "real" THEN Size(system)
                       ELSE Len(ewald.factors.kvecs))
    /\ IF workers.kernel = "real"
       THEN /\ workers' = [workers EXCEPT !.done = TRUE,
                                         !.forces = SumInto(workers.local, @)]
            /\ UNCHANGED ewald
       ELSE LET efield == SumInto(workers.local, [i \in 1..Size(system) |-> VZero])
            IN  /\ ewald' = [ewald EXCEPT !.efield = efield]
                /\ workers' = [workers EXCEPT
                        !.done = TRUE,
                        !.forces = [i \in 1..Len(@) |->
                                       VAdd(@[i], VScale(Charge(i), efield[i]))]]
    /\ UNCHANGED <<lock, system, driver, threads, ctor, pair, mc>>

NextReduce ==
    \/ WorkerRuns
    \/ Gather

SpecReduce == InitReduce /\ [][NextReduce]_vars

(***************************************************************************)
(* Properties of the cache protocol                                        *)
(***************************************************************************)
\* the call recorded in driver has just been made and returned
Did(op) == driver.op = op /\ ~driver.result.panic
\* a step of the caller
Stepped == driver'.steps # driver.steps

\* the structure factor of a full recomputation on configuration cfg
FullRho(cfg) == EikDotR(ewald, cfg).rho
\* the caches are those an energy call on the caller's configuration leaves
Populated ==
    /\ ewald.previous_cell = Some(system.cell)
    /\ ewald.eikr = EikDotR(ewald, system).eikr
    /\ ewald.rho = FullRho(system)
\* the configuration of the pending trial
TrialCfg == Moved(system, driver.trial.val.molecule_id, driver.trial.val.new_positions)
CSeqSub(a, b) == [n \in 1..Len(a) |-> CSub(a[n], b[n])]
CSeqAdd(a, b) == [n \in 1..Len(a) |-> CAdd(a[n], b[n])]

\* C1: after every update() that commits an accepted move_molecule_cost, in a
\* run where the solver was told of every change of the configuration since
\* its last full evaluation, the stored rho is the rho of a full recomputation
\* on the moved configuration.
C1_CommitEqualsFullSum ==
    (Did("accept") /\ driver.tracked) => ewald.rho = FullRho(system)

\* C2: once a trial is rejected, no later update() folds anything into rho.
C2_RejectedDeltaDropped ==
    [][(driver.rejected /\ Stepped /\ driver'.op \in {"update", "accept"})
        => ewald'.rho = ewald.rho]_vars

\* the positions of molecule m in configuration cfg
MolPositions(cfg, m) == [a \in 1..MolSize(m) |-> cfg.pos[MolIndexes(m)[a]]]
\* what the zip! loop of the updater closure gives for rho and a delta
Folded(rho, delta) ==
    [n \in 1..Len(rho) |-> IF n <= Len(delta) THEN CAdd(rho[n], delta[n]) ELSE rho[n]]

\* C3: a move_molecule_cost made while the delta of an earlier one is still
\* pending is computed against the unmoved configuration and leaves its own
\* delta alone in the updater; the update() that follows adds exactly that
\* delta to rho and leaves no updater pending.
C3_SecondCostReplacesFirst ==
    /\ []((Did("move_molecule_cost") /\ driver.replaced /\ Populated)
            => ewald.updater = Some(CSeqSub(FullRho(TrialCfg), FullRho(system))))
    /\ [][(Stepped /\ driver.replaced /\ driver.trial.some /\ driver'.op = "accept")
            => /\ ewald'.rho = Folded(ewald.rho, ewald.updater.val)
               /\ ewald'.updater = NoneOpt]_vars

\* C3 witness: the second of two costs in a row was accepted and committed, and
\* rho is the structure factor of the configuration it moved
C3_Witness ==
    /\ Did("accept")
    /\ driver.replaced
    /\ ewald.rho = FullRho(system)
    /\ \E i \in Particles : system.pos[i] # Site(i, 0)

\* the energy of a configuration from a solver that was never used
FreshEnergy(cfg, restriction) ==
    EnergyBody([Solver EXCEPT !.restriction = restriction], FALSE, cfg).value

\* C4: energy returns what a never-used solver returns, whatever
\* move_molecule_cost calls came before it, and move_molecule_cost leaves rho
\* and eikr as they were.
C4_CostPublishesNothing ==
    /\ [](Did("energy") => driver.result.value = FreshEnergy(system, ewald.restriction))
    /\ [][(Stepped /\ driver'.op = "move_molecule_cost")
            => (ewald'.rho = ewald.rho /\ ewald'.eikr = ewald.eikr)]_vars

\* C4 witness: energy returned while the delta of a rejected trial is pending
C4_Witness ==
    /\ Did("energy")
    /\ driver.rejected
    /\ ewald.updater.some
    /\ \E n \in 1..Len(ewald.updater.val) : ewald.updater.val[n] # CZero

\* the cost of the pending trial equals the energy difference, for the real
\* space part, the k-space part and the total
CostEqualsDifference ==
    LET m == driver.trial.val.molecule_id
        P == driver.trial.val.new_positions
    IN /\ RealSpaceMoveMoleculeCost(ewald, FALSE, system, m, P).value
            = RealSpaceEnergy(ewald, FALSE, TrialCfg).value
              - RealSpaceEnergy(ewald, FALSE, system).value
       /\ KspaceMoveMoleculeCost(ewald, system, m, P).value
            = KspaceEnergy(ewald, TrialCfg).value - KspaceEnergy(ewald, system).value
       /\ driver.result.value
            = FreshEnergy(TrialCfg, ewald.restriction)
              - FreshEnergy(system, ewald.restriction)

\* the new positions keep the distances between the particles of molecule m
RigidMove(cfg, m, new_positions) ==
    \A a, b \in 1..MolSize(m) :
        Distance2(cfg.cell, new_positions[a], new_positions[b])
            = Distance2(cfg.cell, MolPositions(cfg, m)[a], MolPositions(cfg, m)[b])

\* C5 as stated: with the caches populated by an energy call, the cost of any
\* move of a molecule equals energy(cfg') - energy(cfg), part by part.
C5_AnyMoveCostEqualsDifference ==
    (Did("move_molecule_cost") /\ Populated) => CostEqualsDifference

\* C5 amended: the same for the moves that keep the distances between the
\* particles of the moved molecule (rigid moves).
C5_RigidMoveCostEqualsDifference ==
    (/\ Did("move_molecule_cost")
     /\ Populated
     /\ RigidMove(system, driver.trial.val.molecule_id, driver.trial.val.new_positions))
        => CostEqualsDifference

\* C5 witness: the cost of a rigid move that changes positions and energy
C5_Witness ==
    /\ Did("move_molecule_cost")
    /\ Populated
    /\ RigidMove(system, driver.trial.val.molecule_id, driver.trial.val.new_positions)
    /\ MolSize(driver.trial.val.molecule_id) = 2
    /\ driver.trial.val.new_positions # MolPositions(system, driver.trial.val.molecule_id)
    /\ driver.result.value # 0

\* the solver after update() on solver e
AfterUpdate(e) ==
    IF e.updater.some
    THEN [e EXCEPT !.rho = Folded(e.rho, e.updater.val), !.updater = NoneOpt]
    ELSE e

\* C6: whichever thread calls it, update() leaves the solver it found with
\* the pending delta added once to rho and no updater pending, and unchanged
\* if none was pending; a second update() changes nothing, and closures are
\* never run more often than move_molecule_cost stored them.
C6_UpdateOnce ==
    /\ \A t \in DOMAIN threads.pc :
        (threads.pc[t] = "done" /\ threads.op[t] = "update")
            => /\ ewald = AfterUpdate(threads.committed)
               /\ AfterUpdate(ewald) = ewald
    /\ threads.ran <= threads.stored

\* C6 witness: a thread has run update() with nothing pending, after the
\* other thread's update() ran the only closure stored
C6_Witness ==
    \E t, u \in DOMAIN threads.pc :
        /\ t # u
        /\ threads.pc[t] = "done" /\ threads.op[t] = "update"
        /\ threads.op[u] = "update" /\ threads.pc[u] = "idle"
        /\ threads.ran = 1 /\ threads.stored = 1
        /\ ~threads.committed.updater.some

\* thread t is inside a method that takes the write lock, or the read lock
Inside(t) == threads.pc[t] \in {"locked", "precomputed", "taken", "done"}
Reading(t) == threads.pc[t] = "reading"

\* C7: at most one thread is inside a method that takes the write lock, it
\* holds the lock from its precompute to its return, no thread reads the
\* solver meanwhile, and whenever the lock is not held for writing the solver
\* is as the last such method left it when it returned.
C7_Serialised ==
    /\ \A t, u \in DOMAIN threads.pc : (Inside(t) /\ Inside(u)) => t = u
    /\ \A t, u \in DOMAIN threads.pc : Inside(t) => (lock.writer = Some(t) /\ ~Reading(u))
    /\ ~lock.writer.some => ewald = threads.committed

\* C7 witness: a thread is between its precompute and the rest of its method,
\* with factors computed and rho not yet, while the other thread, which has
\* made a call before, is outside
C7_Witness ==
    \E t, u \in DOMAIN threads.pc :
        /\ t # u
        /\ threads.pc[t] = "precomputed"
        /\ ewald # threads.committed
        /\ threads.pc[u] = "idle" /\ threads.op[u] # "none"

\* the methods of SharedEwald
SharedOps == {"energy", "forces", "atomic_virial", "molecular_virial",
              "move_molecule_cost", "accept", "update", "set_restriction",
              "cutoff", "clone"}

\* C8: a method that panics with the lock held poisons the lock, and on a
\* poisoned lock every method panics, returns no value and leaves the solver
\* and the poison as they are.
C8_PanicIsFatal ==
    /\ []((driver.result.panic /\ driver.op \in SharedOps \ {"forces"}) => lock.poisoned)
    /\ [][(lock.poisoned /\ Stepped /\ driver'.op \in SharedOps)
            => (driver'.result.panic /\ ewald' = ewald /\ lock'.poisoned)]_vars

\* C8 witness: clone has panicked on the lock poisoned by an earlier method
C8_Witness ==
    /\ lock.poisoned
    /\ driver.op = "clone"
    /\ driver.result.panic

\* C9: Ewald::new panics for every cutoff <= 0, every alpha <= 0 and kmax = 0.
C9_NonPositiveAborts ==
    (/\ ctor.called
     /\ \/ ctor.cutoff <= 0
        \/ ctor.kmax = 0
        \/ (IF ctor.alpha.some THEN ctor.alpha.val ELSE DefaultAlpha(ctor.cutoff)) <= 0)
        => ctor.result.panic

\* C10: a call of energy, forces, a virial or move_molecule_cost on an
\* infinite cell never returns, and a solver whose factors were last computed
\* for an infinite cell sits behind a poisoned lock.
C10_InfiniteCellAborts ==
    /\ (/\ driver.op \in {"energy", "forces", "atomic_virial", "molecular_virial",
                          "move_molecule_cost"}
        /\ system.cell = Infinite)
            => driver.result.panic
    /\ ewald.previous_cell = Some(Infinite) => lock.poisoned

\* C10 witness: move_molecule_cost has panicked on an infinite cell, on a
\* solver used with a periodic cell and then with the infinite cell before
C10_Witness ==
    /\ driver.op = "move_molecule_cost"
    /\ driver.result.panic
    /\ system.cell = Infinite
    /\ ewald.previous_cell = Some(Infinite)
    /\ Len(ewald.rho) > 0
    /\ driver.steps > 3

\* C11: a forces call with an output array whose length is not the number of
\* particles panics, leaves the array as it was and leaves the solver and its
\* lock as they were.
C11_ForcesLengthMismatchAborts ==
    [][(Stepped /\ driver'.op = "forces" /\ Len(driver'.result.out) # Size(system))
        => /\ driver'.result.panic
           /\ driver'.result.out = [i \in 1..Len(driver'.result.out) |-> VZero]
           /\ ewald' = ewald
           /\ lock' = lock]_vars

\* C11 witness: forces has panicked on a short array, on a solver that has
\* been used and whose lock is still sound
C11_Witness ==
    /\ driver.op = "forces"
    /\ driver.result.panic
    /\ Len(driver.result.out) # Size(system)
    /\ Len(ewald.rho) > 0
    /\ ~lock.poisoned

\* the triples the three loops of compute_triclinic run over, as a set
LoopTriples(kmax) ==
    {k \in (0..(kmax - 1)) \X ((0 - kmax)..(kmax - 1)) \X ((0 - kmax)..(kmax - 1)) :
        \/ k[1] >= 1
        \/ k[1] = 0 /\ k[2] >= 1
        \/ k[1] = 0 /\ k[2] = 0 /\ k[3] >= 1}
\* the loop a triple belongs to, and the order the loops visit triples in
LoopOf(k) == IF k[1] >= 1 THEN 1 ELSE IF k[2] >= 1 THEN 2 ELSE 3
Before(j, k) ==
    \/ LoopOf(j) < LoopOf(k)
    \/ /\ LoopOf(j) = LoopOf(k)
       /\ \/ j[1] < k[1]
          \/ j[1] = k[1] /\ j[2] < k[2]
          \/ j[1] = k[1] /\ j[2] = k[2] /\ j[3] < k[3]
\* precompute has returned for the caller's cell
Precomputed == driver.op = "precompute" /\ ~driver.result.panic

\* C12: after precompute, kvecs holds the triples of the three loops with
\* |k|^2 <= kmax2, each once and in loop order; energy, efield and virial have
\* the length of kvecs and entry n is the factor of kvecs[n]; the table is
\* the one a fresh computation for the same cell and parameters gives.
C12_FactorTable ==
    Precomputed =>
        LET f == ewald.factors
            K(n) == KVector(system.cell, f.kvecs[n])
        IN /\ {f.kvecs[n] : n \in 1..Len(f.kvecs)}
                = {k \in LoopTriples(ewald.kmax) :
                        10000 * Norm2(KVector(system.cell, k)) <= ewald.kmax2}
           /\ \A n \in 1..(Len(f.kvecs) - 1) : Before(f.kvecs[n], f.kvecs[n + 1])
           /\ Len(f.energy) = Len(f.kvecs)
           /\ Len(f.efield) = Len(f.kvecs)
           /\ Len(f.virial) = Len(f.kvecs)
           /\ \A n \in 1..Len(f.kvecs) :
                /\ f.energy[n] = EnergyFactor(system.cell, ewald.alpha, Norm2(K(n)))
                /\ f.efield[n] = VScale(2 * f.energy[n], K(n))
                /\ f.virial[n] = VirialEntry(system.cell, ewald.alpha, K(n))
           /\ f = Compute(system.cell, ewald).factors

\* C12 witness: a table with triples of the three loops, cut by kmax2
C12_Witness ==
    /\ Precomputed
    /\ ewald.kmax = KMax + 1
    /\ \E n \in 1..Len(ewald.factors.kvecs) : ewald.factors.kvecs[n][1] = KMax
    /\ \E n \in 1..Len(ewald.factors.kvecs) : LoopOf(ewald.factors.kvecs[n]) = 3
    /\ Cardinality({k \in LoopTriples(ewald.kmax) :
            10000 * Norm2(KVector(system.cell, k)) > ewald.kmax2}) > 0

\* C13: the factor table never holds (0,0,0), never holds a triple twice and
\* never holds a triple together with its negation.
C13_NoDoubleCounting ==
    Precomputed =>
        LET kvecs == ewald.factors.kvecs
        IN /\ \A n \in 1..Len(kvecs) : kvecs[n] # <<0, 0, 0>>
           /\ \A m, n \in 1..Len(kvecs) : kvecs[m] = kvecs[n] => m = n
           /\ \A m, n \in 1..Len(kvecs) :
                kvecs[m] # <<0 - kvecs[n][1], 0 - kvecs[n][2], 0 - kvecs[n][3]>>

\* C13 witness: a table for the largest kmax with triples that have negative
\* second and third indexes
C13_Witness ==
    /\ Precomputed
    /\ ewald.kmax = KMax + 1
    /\ \E n \in 1..Len(ewald.factors.kvecs) :
        ewald.factors.kvecs[n][2] < 0 /\ ewald.factors.kvecs[n][3] < 0
    /\ \E n \in 1..Len(ewald.factors.kvecs) :
        ewald.factors.kvecs[n][1] = 0 /\ ewald.factors.kvecs[n][3] < 0

\* C14: a precompute for the recorded cell changes nothing; a precompute that
\* returns leaves the cell recorded, kmax2 set for it and the factors a fresh
\* computation for that cell gives, whatever cells came before.
C14_PrecomputeGuard ==
    [][(Stepped /\ driver'.op = "precompute")
        => /\ ewald.previous_cell = Some(system.cell) => ewald' = ewald
           /\ ~driver'.result.panic =>
                LET max == VMax(KVector(system.cell, <<1, 1, 1>>)) * ewald.kmax
                IN /\ ewald'.previous_cell = Some(system.cell)
                   /\ ewald'.kmax2 = 10001 * max * max
                   /\ ewald'.factors = Compute(system.cell, ewald').factors
                   /\ ewald' = [ewald EXCEPT !.previous_cell = ewald'.previous_cell,
                                             !.kmax2 = ewald'.kmax2,
                                             !.factors = ewald'.factors]]_vars

\* C14 witness: precompute has returned for a cell with unequal lengths after
\* earlier calls, on a solver with the largest kmax
C14_Witness ==
    /\ Precomputed
    /\ driver.steps > 2
    /\ system.cell = CellB
    /\ ewald.previous_cell = Some(CellB)
    /\ ewald.kmax = KMax + 1

\* C15: both pair kernels panic for a pair that is excluded and farther than
\* the cutoff.
C15_ExcludedBeyondCutoffAborts ==
    (pair.called /\ pair.info.excluded /\ pair.r2 > ewald.rc * ewald.rc)
        => pair.result.panic

\* C16: both pair kernels panic for a pair whose scaling is not 1, at any
\* distance, excluded or not.
C16_ScalingAborts ==
    (pair.called /\ pair.info.scaling # 1) => pair.result.panic

\* C16 witness: the force kernel of a release build has panicked for a scaled
\* pair that is not excluded and lies beyond the cutoff
C16_Witness ==
    /\ pair.called
    /\ pair.kernel = "force"
    /\ ~pair.debug
    /\ pair.info.scaling > 1
    /\ ~pair.info.excluded
    /\ pair.r2 > ewald.rc * ewald.rc
    /\ pair.result.panic

\* C17: a call of add or add_move_with_acceptance made after setup was called
\* panics, and moves and frequencies have the same length in every state.
C17_AddAfterSetupPanics ==
    mc.built =>
        /\ Len(mc.self.moves) = Len(mc.self.frequencies)
        /\ (mc.last.op \in {"add", "add_move_with_acceptance"} /\ mc.last.setups > 0)
               => mc.last.panic

\* the sum of the first n frequencies given to add
InputSum(n) == SeqSum(SubSeq(mc.added, 1, n))

C19_ScalingFactor ==
    (mc.built /\ mc.last.op = "compute_scaling_factor") =>
        LET counter == mc.self.moves[mc.last.move]
            target == counter.target_acceptance
            returned == mc.last.value
        IN  IF ~target.some \/ counter.attempted = 0 THEN ~returned.some
            ELSE LET n == counter.accepted * target.val.den
                     d == counter.attempted * target.val.num
                     isValue(a, b) == returned.val.den # 0
                                      /\ returned.val.num * b = a * returned.val.den
                 IN  /\ returned.some
                     /\ d > 0
                     /\ IF 5 * n > 6 * d THEN isValue(6, 5)
                        ELSE IF 5 * n < 4 * d THEN isValue(4, 5)
                        ELSE isValue(n, d)

C19_Witness ==
    /\ mc.built /\ mc.last.op = "compute_scaling_factor"
    /\ mc.self.moves[mc.last.move].total_attempted = 2
    /\ mc.self.moves[mc.last.move].total_accepted = 1
    /\ mc.self.moves[mc.last.move].attempted = 1
    /\ mc.self.moves[mc.last.move].accepted = 0
    /\ mc.last.value = Some(Rat(4, 5))

\* a target acceptance that is not strictly between 0 and 1
OutOfRange(target) == target.some /\ (target.val.num <= 0 \/ target.val.num >= target.val.den)

Recurrence(at, kmax, n) ==
    /\ DOMAIN at = ((0 - kmax)..kmax) \X (1..3) \X (1..n)
    /\ \A d \in 1..3, i \in 1..n :
        /\ at[<<0, d, i>>] = <<1, 0>>
        /\ \A k \in 2..kmax : at[<<k, d, i>>] = CMul(at[<<k - 1, d, i>>], at[<<1, d, i>>])
        /\ \A k \in 1..kmax : at[<<0 - k, d, i>>] = CConj(at[<<k, d, i>>])

\* exp(i k.r) for the k-vector of an index triple, without any table
PlaneWave(cell, index, position) == CPolar(Dot(KVector(cell, index), position))

\* C23: the table eikr obeys the recurrence on its first index (entry 0 is 1,
\* entry k is entry k - 1 times entry 1, entry -k is the conjugate of entry
\* k) for every axis and particle, right after an evaluation its entries are
\* the powers of the phase of the particle's position, every index of kvecs
\* is inside -kmax..kmax, and the delta of move_molecule_cost is the one a
\* table obeying the recurrence gives for the new positions.
C23_PhaseRecurrence ==
    /\ ewald.eikr.natoms > 0 =>
          Recurrence(ewald.eikr.at, ewald.kmax, ewald.eikr.natoms)
    /\ \A n \in 1..Len(ewald.factors.kvecs), c \in 1..3 :
          ewald.factors.kvecs[n][c] \in (0 - ewald.kmax)..ewald.kmax
    /\ Did("energy") =>
          \A k \in (0 - ewald.kmax)..ewald.kmax, d \in 1..3, i \in 1..Size(system) :
              ewald.eikr.at[<<k, d, i>>]
                  = PlaneWave(system.cell, [c \in 1..3 |-> IF c = d THEN k ELSE 0],
                              system.pos[i])
    /\ (Did("move_molecule_cost") /\ Populated) =>
          LET m == driver.trial.val.molecule_id
              P == driver.trial.val.new_positions
              kvecs == ewald.factors.kvecs
          IN  ewald.updater = Some(
                [n \in 1..Len(kvecs) |->
                    CSeqSum([a \in 1..MolSize(m) |->
                        CScale(Charge(MolIndexes(m)[a]),
                               CSub(PlaneWave(system.cell, kvecs[n], P[a]),
                                    PlaneWave(system.cell, kvecs[n],
                                              system.pos[MolIndexes(m)[a]])))])])

C23_Witness ==
    /\ Did("move_molecule_cost") /\ Populated
    /\ ewald.eikr.natoms = NParticles
    /\ \E i \in Particles : ewald.eikr.at[<<0 - 1, 1, i>>] = <<0, 0 - 1>>
    /\ \E n \in 1..Len(ewald.updater.val) : ewald.updater.val[n] # CZero

\* C27: after an update() that commits the accepted move of a molecule, in a
\* run where the solver was told of every change since its last full
\* evaluation, eikr holds the phase factors of the moved configuration, the
\* one rho describes.
C27_EikrFollowsCommit ==
    (Did("accept") /\ driver.tracked) =>
        /\ ewald.eikr.natoms = Size(system)
        /\ ewald.eikr.at = PhaseTable(system.cell, ewald.kmax, system.pos)

\* C28: once an energy, forces or virial call has filled the caches, and as
\* long as no call has panicked, rho has the length of kvecs and of the
\* energy, efield and virial factor arrays, and the delta of a pending
\* updater has that length too, also when the cell changed between calls.
C28_RhoMatchesKvecs ==
    (ewald.eikr.natoms > 0 /\ ~lock.poisoned) =>
        /\ Len(ewald.rho) = Len(ewald.factors.kvecs)
        /\ Len(ewald.factors.energy) = Len(ewald.factors.kvecs)
        /\ Len(ewald.factors.efield) = Len(ewald.factors.kvecs)
        /\ Len(ewald.factors.virial) = Len(ewald.factors.kvecs)
        /\ ewald.updater.some => Len(ewald.updater.val) = Len(ewald.rho)

\* C22: whatever worker ran each iteration, real_space_forces and
\* kspace_forces add to every entry of the caller's array, on top of what it
\* held, the same forces: for the real space part the sum over the pairs
\* (i, j), i < j, of +f on i and -f on j, each pair once; for the k-space
\* part the charge times the field summed over all k-vectors.
C22_ReductionIndependentOfWorkers ==
    workers.kernel # "none" /\ workers.done =>
        LET kvecs == ewald.factors.kvecs
            Field(i) ==
                VSeqSum([n \in 1..Len(kvecs) |->
                    VScale(CMul(CMul(CMul(ewald.eikr.at[<<kvecs[n][1], 1, i>>],
                                          ewald.eikr.at[<<kvecs[n][2], 2, i>>]),
                                     ewald.eikr.at[<<kvecs[n][3], 3, i>>]),
                                CConj(ewald.rho[n]))[2],
                           ewald.factors.efield[n])])
            added == IF workers.kernel = "real"
                     THEN RealSpaceForces(ewald, FALSE, system).value
                     ELSE [i \in 1..Size(system) |-> VScale(Charge(i), Field(i))]
        IN  workers.forces = [i \in 1..Size(system) |-> VAdd(workers.before[i], added[i])]

C22_Witness ==
    /\ workers.kernel = "real" /\ workers.done
    /\ \A w \in 1..NWorkers : \E i \in Particles : workers.local[w][i] # VZero
    /\ \E i \in Particles : workers.forces[i] # workers.before[i]

\* C24: in every state of a counter driven by accept, reject and update,
\* accepted <= attempted, total_accepted <= total_attempted, attempted <=
\* total_attempted and accepted <= total_accepted; accept adds 1 to the four
\* counts, reject adds 1 to attempted and total_attempted only, update
\* zeroes accepted and attempted and keeps the totals; acceptance() is
\* total_accepted / total_attempted, and 0 when nothing was attempted.
C24_CounterCounts ==
    [][LET i == mc'.last.move
           old == mc.self.moves[i]
           new == mc'.self.moves[i]
       IN  /\ \A k \in 1..Len(mc'.self.moves) :
                 /\ mc'.self.moves[k].accepted <= mc'.self.moves[k].attempted
                 /\ mc'.self.moves[k].total_accepted <= mc'.self.moves[k].total_attempted
                 /\ mc'.self.moves[k].attempted <= mc'.self.moves[k].total_attempted
                 /\ mc'.self.moves[k].accepted <= mc'.self.moves[k].total_accepted
           /\ mc'.last.op = "accept" =>
                 new = [old EXCEPT !.accepted = @ + 1, !.attempted = @ + 1,
                                   !.total_accepted = @ + 1, !.total_attempted = @ + 1]
           /\ mc'.last.op = "reject" =>
                 new = [old EXCEPT !.attempted = @ + 1, !.total_attempted = @ + 1]
           /\ mc'.last.op = "update" =>
                 new = [old EXCEPT !.accepted = 0, !.attempted = 0]
           /\ mc'.last.op = "acceptance" =>
                 /\ mc'.self = mc.self
                 /\ IF old.total_attempted = 0 THEN mc'.last.value.num = 0
                    ELSE /\ mc'.last.value.den # 0
                         /\ mc'.last.value.num * old.total_attempted
                               = old.total_accepted * mc'.last.value.den]_vars

C24_Witness ==
    /\ mc.built /\ mc.last.op = "acceptance"
    /\ mc.self.moves[mc.last.move].total_attempted = 2
    /\ mc.self.moves[mc.last.move].total_accepted = 1
    /\ mc.self.moves[mc.last.move].attempted = 0
    /\ mc.last.value.num * 2 = mc.last.value.den

\* C21: with no registered move, setup returns normally and every later
\* call of propagate returns without panicking and leaves the system as it
\* was.
C21_EmptyListContinues ==
    (mc.built /\ mc.self.moves = <<>> /\ mc.last.op \in {"setup", "propagate"}) =>
        /\ ~mc.last.panic
        /\ mc.last.op = "propagate" => system.pos = mc.last.before

\* the calls of a trace, in order
Calls(trace) == [k \in 1..Len(trace) |-> trace[k].call]

\* C25: after a call of propagate that attempted a move, also when the
\* update frequency was changed between the calls: with update_frequency 0
\* the amplitude is not updated; an update of the amplitude comes with the
\* reset of the counts since the last update; and the attempted count of
\* the move is not above update_frequency when that is not 0.
C25_AmplitudeUpdatedInTime ==
    (mc.built /\ mc.last.op = "propagate" /\ ~mc.last.panic
        /\ Len(mc.last.trace) > 1) =>
        LET counter == mc.self.moves[mc.last.move]
            updated == \E k \in 1..Len(mc.last.trace) :
                          mc.last.trace[k].call = "update_amplitude"
        IN  /\ mc.self.update_frequency = 0 => ~updated
            /\ updated => counter.attempted = 0 /\ counter.accepted = 0
            /\ mc.self.update_frequency > 0 =>
                   counter.attempted <= mc.self.update_frequency

\* C26: in a call of propagate, a failed prepare is the only call made and
\* changes neither the counters nor the system; otherwise cost is called
\* once and then either apply, cache.update, accept (always when
\* cost <= 0) or restore, reject; cache.update sees the system that apply
\* left.
C26_PropagateBranches ==
    [][(mc'.last.op = "propagate" /\ ~mc'.last.panic) =>
        LET trace == mc'.last.trace
            step == SelectSeq(Calls(trace),
                              LAMBDA c : c \notin {"update_amplitude", "update"})
            i == mc'.last.move
        IN  /\ step \in {<<"prepare">>,
                         <<"prepare", "cost", "apply", "cache.update", "accept">>,
                         <<"prepare", "cost", "restore", "reject">>}
            /\ step = <<"prepare">> =>
                   /\ Len(trace) = 1
                   /\ mc'.self = mc.self
                   /\ system' = system
            /\ (Len(step) > 1 /\ mc'.last.cost <= 0) => step[3] = "apply"
            /\ (Len(step) > 1 /\ step[3] = "apply") =>
                   /\ trace[4].pos = trace[3].pos
                   /\ system'.pos = trace[3].pos
                   /\ mc'.self.moves[i].total_accepted
                         = mc.self.moves[i].total_accepted + 1
                   /\ mc'.self.moves[i].total_attempted
                         = mc.self.moves[i].total_attempted + 1
            /\ (Len(step) > 1 /\ step[3] = "restore") =>
                   /\ mc'.self.moves[i].total_accepted
                         = mc.self.moves[i].total_accepted
                   /\ mc'.self.moves[i].total_attempted
                         = mc.self.moves[i].total_attempted + 1]_vars

C26_Witness ==
    /\ mc.built /\ mc.last.op = "propagate" /\ ~mc.last.panic
    /\ Len(mc.last.trace) > 1
    /\ mc.last.cost > 0
    /\ mc.last.trace[3].call = "apply"
    /\ mc.self.moves[mc.last.move].total_attempted = 2
    /\ mc.self.moves[mc.last.move].total_accepted = 1

\* C29: in a call of propagate with a Rotate move, prepare, cost and
\* restore leave every position as it was before the call, so a rejected
\* rotation leaves the system unchanged; prepare stores the selected
\* molecule and one new position for each of its particles; apply writes
\* newpos to the particles of molid and changes no other particle.
C29_RotateWritesInApply ==
    (mc.built /\ mc.last.op = "propagate" /\ ~mc.last.panic) =>
        LET trace == mc.last.trace
            before == mc.last.before
        IN  /\ \A k \in 1..Len(trace) :
                   trace[k].call \in {"prepare", "cost", "restore", "reject"} =>
                       trace[k].pos = before
            /\ Len(trace) > 1 =>
                LET move == mc.rotate[mc.last.move]
                IN  /\ move.molid \in Molecules
                    /\ Len(move.newpos) = MolSize(move.molid)
                    /\ trace[3].call = "restore" => system.pos = before
                    /\ trace[3].call = "apply" =>
                           /\ system.pos = trace[3].pos
                           /\ \A p \in Particles :
                                  system.pos[p] =
                                      IF MolOf(p) = move.molid
                                      THEN move.newpos[p - First(move.molid) + 1]
                                      ELSE before[p]

C29_Witness ==
    /\ mc.built /\ mc.last.op = "propagate" /\ ~mc.last.panic
    /\ Len(mc.last.trace) > 1
    /\ mc.last.trace[3].call = "apply"
    /\ mc.rotate[mc.last.move].molid = 1
    /\ system.pos[1] # mc.last.before[1]
    /\ system.pos[2] # mc.last.before[2]
    /\ system.pos[3] = mc.last.before[3]
====
